---- MODULE Spec2Model ----
(***************************************************************************)
(* Weight dashboard: the DataManager of data.js (row parser, settings,     *)
(* derived metrics, loading and the last-loaded-data cache) and the        *)
(* App of charts.js (loadData, checkDataCompleteness).                     *)
(*                                                                         *)
(* JavaScript values are tagged records [t, v]:                            *)
(*   t = "undefined" | "null" | "nan" | "num" | "str" | "date" | "obj"     *)
(* A string is the sequence of its characters.  A number is an integer     *)
(* count of hundredths (72.5 is 7250), so every decimal with at most two   *)
(* fraction digits is exact; binary floating-point error is not modelled.  *)
(* A native Date is the calendar date of its UTC instant, which is what    *)
(* toISOString() prints.                                                   *)
(***************************************************************************)
EXTENDS Integers, Sequences, FiniteSets, TLC

\* op, args, ret: the call made of a pure function, its arguments, its result
VARIABLES op, args, ret
\* App.dataSource, App.currentData, App.chartData, DataManager.cachedData, the
\* text of the #errorMessage element (null when there is none), the loading
\* class of the container, and the App.loadData calls made so far
VARIABLES dataSource, currentData, chartData, cachedData, errorMessage, loading, loads
appVars == <<dataSource, currentData, chartData, cachedData, errorMessage, loading, loads>>
vars == <<op, args, ret, dataSource, currentData, chartData, cachedData, errorMessage, loading, loads>>

(* ------------------------------------------------------------ bounds --- *)
\* data rows of an input sheet
MaxRows == 2
\* entries of the daily log handed to calculateMovingAverage
MaxLog == 8
\* entries of the short daily logs handed to calculateMovingAverage
MaxShortLog == 3
\* entries of the daily log handed to calculateWeightChange
MaxWeights == 3
\* entries of the daily log handed to calculateWeeklyStats
MaxStatsLog == 8
\* data rows of a settings sheet
MaxSettingsRows == 2
\* App.loadData calls in one behaviour
MaxLoads == 2
\* entries of the daily log handed to calculateWaistChange
MaxWaistLog == 3
\* entries of the daily logs handed to getStepsData
MaxStepsLog == 8
MaxShortStepsLog == 3
\* entries of the daily log handed to getYesterdayCalories
MaxCaloriesLog == 3

(* --------------------------------------------------------- JS values --- *)
Undef == [t |-> "undefined", v |-> 0]
Null == [t |-> "null", v |-> 0]
NaN == [t |-> "nan", v |-> 0]
Num(n) == [t |-> "num", v |-> n]
Str(s) == [t |-> "str", v |-> s]
NativeDate(y, m, d) == [t |-> "date", v |-> <<y, m, d>>]

IsStr(x) == x.t = "str"
IsNum(x) == x.t = "num"

\* !x of JavaScript
Falsy(x) ==
  \/ x.t \in {"undefined", "null", "nan"}
  \/ x.t = "num" /\ x.v = 0
  \/ x.t = "str" /\ x.v = <<>>

\* row[k] with k counted from 0: undefined past the end of the array
Cell(row, k) == IF k + 1 <= Len(row) THEN row[k + 1] ELSE Undef

(* ----------------------------------------------------------- strings --- *)
DigitChars == {"0", "1", "2", "3", "4", "5", "6", "7", "8", "9"}

DigitVal(c) ==
  CASE c = "0" -> 0 [] c = "1" -> 1 [] c = "2" -> 2 [] c = "3" -> 3
    [] c = "4" -> 4 [] c = "5" -> 5 [] c = "6" -> 6 [] c = "7" -> 7
    [] c = "8" -> 8 [] c = "9" -> 9

DigitChar(n) ==
  CASE n = 0 -> "0" [] n = 1 -> "1" [] n = 2 -> "2" [] n = 3 -> "3"
    [] n = 4 -> "4" [] n = 5 -> "5" [] n = 6 -> "6" [] n = 7 -> "7"
    [] n = 8 -> "8" [] n = 9 -> "9"

\* Number(s) of a string of decimal digits
RECURSIVE DigitsToNat(_)
DigitsToNat(s) ==
  IF s = <<>> THEN 0
  ELSE 10 * DigitsToNat(SubSeq(s, 1, Len(s) - 1)) + DigitVal(s[Len(s)])

\* String(n) of a natural number
RECURSIVE NatToStr(_)
NatToStr(n) ==
  IF n < 10 THEN <<DigitChar(n)>>
  ELSE NatToStr(n \div 10) \o <<DigitChar(n % 10)>>

\* s.padStart(2, '0')
PadStart2(s) ==
  IF Len(s) >= 2 THEN s
  ELSE IF Len(s) = 1 THEN <<"0">> \o s
  ELSE <<"0", "0">>

\* s.startsWith(p)
StartsWith(s, p) == Len(s) >= Len(p) /\ SubSeq(s, 1, Len(p)) = p

\* the number of consecutive digits of s from position p on (the greedy \d+)
RECURSIVE DigitRun(_, _)
DigitRun(s, p) ==
  IF p <= Len(s) /\ s[p] \in DigitChars THEN 1 + DigitRun(s, p + 1) ELSE 0

\* s.split('/')
RECURSIVE SplitSlash(_)
SplitSlash(s) ==
  IF \E i \in 1..Len(s) : s[i] = "/"
  THEN LET i == CHOOSE k \in 1..Len(s) :
                  s[k] = "/" /\ \A j \in 1..(k - 1) : s[j] # "/"
       IN <<SubSeq(s, 1, i - 1)>> \o SplitSlash(SubSeq(s, i + 1, Len(s)))
  ELSE <<s>>

AllDigits(s) == \A i \in 1..Len(s) : s[i] \in DigitChars

DatePrefix == <<"D", "a", "t", "e", "(">>

\* /Date\((\d+),(\d+),(\d+)\)/ tried at position p: the three groups, or <<>>
DateCtorAt(s, p) ==
  IF ~(p + 4 <= Len(s) /\ SubSeq(s, p, p + 4) = DatePrefix) THEN <<>>
  ELSE
    LET a == p + 5
        n1 == DigitRun(s, a)
        b == a + n1 + 1
        n2 == DigitRun(s, b)
        c == b + n2 + 1
        n3 == DigitRun(s, c)
        e == c + n3
    IN IF /\ n1 > 0 /\ n2 > 0 /\ n3 > 0
          /\ e <= Len(s)
          /\ s[a + n1] = "," /\ s[b + n2] = "," /\ s[e] = ")"
       THEN <<SubSeq(s, a, a + n1 - 1), SubSeq(s, b, b + n2 - 1),
              SubSeq(s, c, c + n3 - 1)>>
       ELSE <<>>

\* dateStr.match(/Date\((\d+),(\d+),(\d+)\)/): the leftmost match, or <<>>
DateCtorMatch(s) ==
  IF \E p \in 1..Len(s) : DateCtorAt(s, p) # <<>>
  THEN DateCtorAt(s, CHOOSE p \in 1..Len(s) :
         DateCtorAt(s, p) # <<>> /\ \A q \in 1..(p - 1) : DateCtorAt(s, q) = <<>>)
  ELSE <<>>

\* /^\d{4}\/\d{1,2}\/\d{1,2}$/
MatchesFullSlash(s) ==
  LET parts == SplitSlash(s)
  IN /\ Len(parts) = 3
     /\ Len(parts[1]) = 4 /\ AllDigits(parts[1])
     /\ Len(parts[2]) \in {1, 2} /\ AllDigits(parts[2])
     /\ Len(parts[3]) \in {1, 2} /\ AllDigits(parts[3])

\* /^\d{1,2}\/\d{1,2}$/
MatchesPartialSlash(s) ==
  LET parts == SplitSlash(s)
  IN /\ Len(parts) = 2
     /\ Len(parts[1]) \in {1, 2} /\ AllDigits(parts[1])
     /\ Len(parts[2]) \in {1, 2} /\ AllDigits(parts[2])

Dash == <<"-">>
Slash == <<"/">>
FallbackYear == <<"2", "0", "2", "6">>

\* date.toISOString().split('T')[0] for a date of the years 1000..9999
IsoDatePart(ymd) ==
  NatToStr(ymd[1]) \o Dash \o PadStart2(NatToStr(ymd[2])) \o Dash
    \o PadStart2(NatToStr(ymd[3]))

\* String(Number(match[2]) + 1): the month of Date(y,m,d) counts from 0
CtorMonthZeroBased(m) == NatToStr(DigitsToNat(m))
CtorMonth(m) == NatToStr(DigitsToNat(m) + 1)

\* the date conversion of parseInputSheet: what ends up in entry.date
NormalizeDateCell(dateStr) ==
  IF IsStr(dateStr) /\ StartsWith(dateStr.v, DatePrefix) THEN
    LET match == DateCtorMatch(dateStr.v)
    IN IF match # <<>>
       THEN Str(match[1] \o Dash
                \o PadStart2(CtorMonth(match[2])) \o Dash
                \o PadStart2(match[3]))
       ELSE dateStr
  ELSE IF IsStr(dateStr) /\ MatchesFullSlash(dateStr.v) THEN
    LET parts == SplitSlash(dateStr.v)
    IN Str(parts[1] \o Dash \o PadStart2(parts[2]) \o Dash \o PadStart2(parts[3]))
  ELSE IF IsStr(dateStr) /\ MatchesPartialSlash(dateStr.v) THEN
    LET parts == SplitSlash(dateStr.v)
    IN Str(FallbackYear \o Dash \o PadStart2(parts[1]) \o Dash \o PadStart2(parts[2]))
  ELSE IF dateStr.t = "date" THEN Str(IsoDatePart(dateStr.v))
  ELSE dateStr

(* ----------------------------------------------------------- numbers --- *)
WhiteSpace == {" ", "\t"}

\* the trimming StringToNumber applies before it reads the literal
RECURSIVE TrimLeft(_)
TrimLeft(s) ==
  IF s # <<>> /\ s[1] \in WhiteSpace THEN TrimLeft(Tail(s)) ELSE s

RECURSIVE TrimRight(_)
TrimRight(s) ==
  IF s # <<>> /\ s[Len(s)] \in WhiteSpace
  THEN TrimRight(SubSeq(s, 1, Len(s) - 1)) ELSE s

\* the hundredths a fraction-digit string stands for (at most two digits)
FractionHundredths(f) ==
  IF f = <<>> THEN 0
  ELSE IF Len(f) = 1 THEN 10 * DigitVal(f[1])
  ELSE 10 * DigitVal(f[1]) + DigitVal(f[2])

\* an unsigned StrDecimalLiteral without exponent: digits, digits. , digits.digits , .digits
UnsignedDecimal(s) ==
  LET n == DigitRun(s, 1)
  IN IF n = Len(s) THEN (IF n > 0 THEN Num(100 * DigitsToNat(s)) ELSE NaN)
     ELSE IF s[n + 1] # "." THEN NaN
     ELSE LET f == SubSeq(s, n + 2, Len(s))
          IN IF ~AllDigits(f) \/ (n = 0 /\ f = <<>>) \/ Len(f) > 2 THEN NaN
             ELSE Num(100 * DigitsToNat(SubSeq(s, 1, n)) + FractionHundredths(f))

\* Number(s) of a string: white space trimmed, the empty string is 0, a signed
\* decimal literal is its value, anything else NaN.  (Exponents, hex literals,
\* Infinity and fractions of more than two digits are outside the inputs drawn.)
StringToNumber(s) ==
  LET u == TrimRight(TrimLeft(s))
  IN IF u = <<>> THEN Num(0)
     ELSE IF u[1] = "-" THEN
       LET m == UnsignedDecimal(Tail(u))
       IN IF m.t = "num" THEN Num(0 - m.v) ELSE NaN
     ELSE IF u[1] = "+" THEN UnsignedDecimal(Tail(u))
     ELSE UnsignedDecimal(u)

\* Number(val)
ToNumber(val) ==
  CASE val.t = "num" -> val
    [] val.t = "nan" -> NaN
    [] val.t = "undefined" -> NaN
    [] val.t = "null" -> Num(0)
    [] val.t = "str" -> StringToNumber(val.v)
    [] OTHER -> NaN

\* isNaN(x) of a number
IsNaN(x) == x.t = "nan"

\* parseNum of parseInputSheet
parseNum(val) ==
  IF val.t = "null" \/ val.t = "undefined" \/ (val.t = "str" /\ val.v = <<>>)
  THEN Null
  ELSE LET num == ToNumber(val)
       IN IF IsNaN(num) THEN Null ELSE num

(* -------------------------------------------------------- row parser --- *)
\* the entry parseInputSheet pushes for a row it keeps
InputEntry(row) ==
  [date |-> NormalizeDateCell(Cell(row, 0)),
   weight |-> parseNum(Cell(row, 1)),
   waist |-> parseNum(Cell(row, 2)),
   steps |-> parseNum(Cell(row, 3)),
   calories_intake |-> parseNum(Cell(row, 4)),
   protein |-> Null,
   fat |-> Null,
   carbs |-> Null,
   notes |-> IF Falsy(Cell(row, 5)) THEN Str(<<>>) ELSE Cell(row, 5)]

\* the rows the loop of parseInputSheet skips: if (!row[0]) continue
SkipsNoRow(row) == FALSE
SkipsRow(row) == Falsy(Cell(row, 0))

\* the loop of parseInputSheet from index i (counted from 0) on
RECURSIVE ParseFrom(_, _)
ParseFrom(rows, i) ==
  IF i >= Len(rows) THEN <<>>
  ELSE IF SkipsRow(rows[i + 1]) THEN ParseFrom(rows, i + 1)
  ELSE <<InputEntry(rows[i + 1])>> \o ParseFrom(rows, i + 1)

parseInputSheet(rows) == IF Len(rows) < 2 THEN <<>> ELSE ParseFrom(rows, 1)


(* ----------------------------------------------------------- metrics --- *)
Max(a, b) == IF a >= b THEN a ELSE b

\* Math.round(num / den) for den > 0: halves go up
RoundHalfUp(num, den) == (2 * num + den) \div (2 * den)

RECURSIVE SumSeq(_)
SumSeq(q) == IF q = <<>> THEN 0 ELSE q[1] + SumSeq(Tail(q))

\* d[field] !== null && d[field] > 0
PresentPositive(x) == x.t = "num" /\ x.v > 0

\* data.slice(start, i + 1) with start = Math.max(0, i - days + 1), i counted from 0
MovingWindowOffByOne(data, i, days) == SubSeq(data, Max(0, i - days) + 1, i + 1)
MovingWindow(data, i, days) == SubSeq(data, Max(0, i - days + 1) + 1, i + 1)

\* slice.filter(d => d[field] !== null && d[field] > 0).map(d => d[field])
ValidValues(slice, field) ==
  LET kept == SelectSeq(slice, LAMBDA d : PresentPositive(d[field]))
  IN [k \in 1..Len(kept) |-> kept[k][field].v]

\* Math.round(avg * 100) / 100 of the mean of the values, in hundredths
MeanTwoDecimals(values) == Num(RoundHalfUp(SumSeq(values), Len(values)))

calculateMovingAverage(data, field, days) ==
  [k \in 1..Len(data) |->
     LET validValues == ValidValues(MovingWindow(data, k - 1, days), field)
     IN IF Len(validValues) > 0 THEN MeanTwoDecimals(validValues) ELSE Null]

\* Math.round(x * 10) / 10 of a number of hundredths
RoundOneDecimal(x) == 10 * RoundHalfUp(x, 10)

\* x.toFixed(1) of the quotient 100 * num / den (den > 0): the tenths, halves
\* away from zero, printed with sign, integer part and one fraction digit
ToFixedOne(num, den) ==
  LET mag == IF num < 0 THEN 0 - num ELSE num
      tenths == RoundHalfUp(1000 * mag, den)
      body == NatToStr(tenths \div 10) \o <<".">> \o NatToStr(tenths % 10)
  IN Str(IF num < 0 /\ tenths > 0 THEN <<"-">> \o body ELSE body)

ZeroWeightChange == [current |-> Num(0), change |-> Num(0), changePercent |-> Num(0), toGoal |-> Num(0)]

\* validWeights[validWeights.length - 1]
CurrentOfFirst(valid) == valid[1]
CurrentOf(valid) == valid[Len(valid)]

calculateWeightChange(data, settings) ==
  LET validWeights == SelectSeq(data, LAMBDA d : PresentPositive(d.weight))
  IN IF Len(validWeights) = 0 THEN ZeroWeightChange
     ELSE LET current == CurrentOf(validWeights).weight.v
              startWeight == settings.start_weight.v
              change == current - startWeight
              toGoal == current - settings.target_weight.v
          IN [current |-> Num(current),
              change |-> Num(RoundOneDecimal(change)),
              changePercent |-> ToFixedOne(change, startWeight),
              toGoal |-> Num(RoundOneDecimal(toGoal))]


\* a JavaScript object: v is the record of its own properties
Obj(rec) == [t |-> "obj", v |-> rec]

\* obj[key] of a JavaScript object given as a record: undefined when not there
Get(rec, key) == IF key \in DOMAIN rec THEN rec[key] ELSE Undef

DefaultGoals ==
  Obj([calories |-> Num(270000), calories_before_0120 |-> Num(260000),
       protein |-> Num(19500), fat |-> Num(5800), carbs |-> Num(32500),
       pfc_ratio |-> Str(<<"3", ":", "2", ":", "5">>)])

getDefaultSettings ==
  [target_weight |-> Num(9000),
   target_steps |-> Num(1000000),
   start_weight |-> Num(11920),
   start_date |-> Str(<<"2", "0", "2", "6", "-", "0", "1", "-", "0", "8">>),
   basal_metabolism |-> Num(220000),
   height |-> Num(18400),
   age |-> Num(3000),
   gender |-> Str(<<"m", "a", "l", "e">>),
   goals |-> DefaultGoals]

\* the goals calculateWeeklyStats falls back to when settings has none
StatsFallbackGoals ==
  Obj([calories |-> Num(260000), protein |-> Num(19500), fat |-> Num(5800),
       carbs |-> Num(32500)])

\* data.slice(-7)
LastSevenDaysAll(data) == data
LastSevenDays(data) == SubSeq(data, Max(0, Len(data) - 7) + 1, Len(data))

\* const mealTypes = ['breakfast', 'lunch', 'snack', 'dinner']
MealTypes == <<"breakfast", "lunch", "snack", "dinner">>

\* item.protein || 0
OrZero(x) == IF Falsy(x) THEN 0 ELSE x.v

\* the items of the slots of mealTypes that dayMeals has, in the order visited
RECURSIVE SlotItems(_, _)
SlotItems(dayMeals, types) ==
  IF types = <<>> THEN <<>>
  ELSE (IF types[1] \in DOMAIN dayMeals THEN dayMeals[types[1]] ELSE <<>>)
         \o SlotItems(dayMeals, Tail(types))

\* the items the forEach over last7Days visits: those of the days meals has
RECURSIVE WindowItems(_, _)
WindowItems(days, meals) ==
  IF days = <<>> THEN <<>>
  ELSE (IF days[1].date.t = "str" /\ days[1].date.v \in DOMAIN meals
        THEN SlotItems(meals[days[1].date.v], MealTypes) ELSE <<>>)
         \o WindowItems(Tail(days), meals)

\* Math.round((part / total) * 100) when total > 0, else 0
PercentOf(part, total) == IF total > 0 THEN Num(100 * RoundHalfUp(100 * part, total)) ELSE Num(0)

ZeroPfc == [protein |-> Num(0), carbs |-> Num(0), fat |-> Num(0)]

\* the PFC block of calculateWeeklyStats; meals is null/undefined or Obj(map)
WeeklyPfc(last7Days, meals) ==
  IF Falsy(meals) THEN ZeroPfc
  ELSE LET items == WindowItems(last7Days, meals.v)
           totalProtein == SumSeq([k \in 1..Len(items) |-> OrZero(Get(items[k], "protein"))])
           totalFat == SumSeq([k \in 1..Len(items) |-> OrZero(Get(items[k], "fat"))])
           totalCarbs == SumSeq([k \in 1..Len(items) |-> OrZero(Get(items[k], "carbs"))])
           proteinCal == totalProtein * 4
           carbsCal == totalCarbs * 4
           fatCal == totalFat * 9
           totalCal == proteinCal + carbsCal + fatCal
       IN \* daysWithData > 0: some visited day has an item
          IF Len(items) > 0
          THEN [protein |-> PercentOf(proteinCal, totalCal),
                carbs |-> PercentOf(carbsCal, totalCal),
                fat |-> PercentOf(fatCal, totalCal)]
          ELSE ZeroPfc

calculateWeeklyStats(data, settings, meals) ==
  LET last7Days == LastSevenDays(data)
      goals == IF Falsy(Get(settings, "goals")) THEN StatsFallbackGoals ELSE settings.goals
      validCalories == ValidValues(last7Days, "calories_intake")
      validWeight == ValidValues(last7Days, "weight")
  IN [avgCalories |->
        IF Len(validCalories) > 0
        THEN Num(100 * RoundHalfUp(SumSeq(validCalories), 100 * Len(validCalories)))
        ELSE Num(0),
      avgWeight |->
        IF Len(validWeight) > 0
        THEN Num(10 * RoundHalfUp(SumSeq(validWeight), 10 * Len(validWeight)))
        ELSE Num(0),
      pfc |-> WeeklyPfc(last7Days, meals),
      goals |-> goals]

\* settings.height || 184, settings.age || 30
HeightOr184(settings) ==
  IF Falsy(Get(settings, "height")) THEN 18400 ELSE settings.height.v
AgeOr30(settings) ==
  IF Falsy(Get(settings, "age")) THEN 3000 ELSE settings.age.v

\* if (!weight) return null
BurnAbsentOnlyForNull(weight) == weight.t \in {"null", "undefined"}
BurnAbsent(weight) == Falsy(weight)

\* the constant term 88.362 of the BMR formula, in units of 1e-5 kcal: the same
\* for every settings.gender
BmrConstantByGender(settings) ==
  IF Get(settings, "gender") = Str(<<"f", "e", "m", "a", "l", "e">>) THEN 44759300 ELSE 8836200
BmrConstant(settings) == 8836200

\* Math.round(bmr * 1.2 + stepsCalories) with
\*   bmr = 88.362 + 13.397 * weight + 4.799 * height - 5.677 * age
\*   stepsCalories = steps ? steps * 0.045 : 0
\* weight, height, age, steps in hundredths.  bmr is held in units of 1e-5 kcal
\* and the sum as whole kcal plus millionths, which keeps every intermediate
\* value exact and inside 32 bits.
calculateEstimatedBurn(weight, steps, settings) ==
  IF BurnAbsent(weight) THEN Null
  ELSE LET height == HeightOr184(settings)
           age == AgeOr30(settings)
           bmr == BmrConstant(settings) + 13397 * weight.v + 4799 * height - 5677 * age
           bmrKcal == bmr \div 100000
           bmrRest == bmr % 100000
           stepsMicro == IF Falsy(steps) THEN 0 ELSE 450 * steps.v
           kcal == (12 * bmrKcal) \div 10 + stepsMicro \div 1000000
           micro == ((12 * bmrKcal) % 10) * 100000 + 12 * bmrRest + (stepsMicro % 1000000)
       IN Num(100 * (kcal + RoundHalfUp(micro, 1000000)))

\* a - b of two numbers, NaN when either is no number
Minus(a, b) == IF a.t = "num" /\ b.t = "num" THEN Num(a.v - b.v) ELSE NaN
\* x < c, x > c, Math.abs(x) <= c: false for NaN
Less(x, c) == x.t = "num" /\ x.v < c
Greater(x, c) == x.t = "num" /\ x.v > c
AbsAtMost(x, c) == x.t = "num" /\ x.v <= c /\ 0 - x.v <= c

\* if (!log.protein || !log.fat || !log.carbs || !goals) return null
PfcMissing(log, goals) ==
  Falsy(log.protein) \/ Falsy(log.fat) \/ Falsy(log.carbs) \/ Falsy(goals)

\* the labels stand for the three Japanese issue labels of the source (protein
\* short, fat over, carbs over); text is the list that issues.join prints, and
\* <<"ideal">> stands for the text of the 'good' verdict
evaluatePFC(log, goals) ==
  IF PfcMissing(log, goals) THEN Null
  ELSE LET proteinDiff == Minus(log.protein, Get(goals.v, "protein"))
           fatDiff == Minus(log.fat, Get(goals.v, "fat"))
           carbsDiff == Minus(log.carbs, Get(goals.v, "carbs"))
           issues == (IF Less(proteinDiff, 0 - 2000) THEN <<"proteinDeficit">> ELSE <<>>)
                       \o (IF Greater(fatDiff, 2000) THEN <<"fatExcess">> ELSE <<>>)
                       \o (IF Greater(carbsDiff, 5000) THEN <<"carbsExcess">> ELSE <<>>)
       IN IF Len(issues) = 0 /\ AbsAtMost(proteinDiff, 2000) /\ AbsAtMost(fatDiff, 1500)
          THEN Obj([status |-> "good", text |-> <<"ideal">>])
          ELSE IF Len(issues) > 0
          THEN Obj([status |-> "warning", text |-> issues])
          ELSE Null


(* ------------------------------------------------- data completeness --- *)
IsLeapYear(y) == (y % 4 = 0 /\ y % 100 # 0) \/ y % 400 = 0

DaysInMonth(y, m) ==
  IF m = 2 THEN (IF IsLeapYear(y) THEN 29 ELSE 28)
  ELSE IF m \in {4, 6, 9, 11} THEN 30 ELSE 31

PreviousDay(ymd) ==
  IF ymd[3] > 1 THEN <<ymd[1], ymd[2], ymd[3] - 1>>
  ELSE IF ymd[2] > 1 THEN <<ymd[1], ymd[2] - 1, DaysInMonth(ymd[1], ymd[2] - 1)>>
  ELSE <<ymd[1] - 1, 12, 31>>

\* today.subtract(i, 'day')
RECURSIVE SubtractDays(_, _)
SubtractDays(ymd, i) == IF i = 0 THEN ymd ELSE SubtractDays(PreviousDay(ymd), i - 1)

\* checkDate.format('YYYY-MM-DD') for a four-digit year
FormatYMD(ymd) ==
  NatToStr(ymd[1]) \o Dash \o PadStart2(NatToStr(ymd[2])) \o Dash \o PadStart2(NatToStr(ymd[3]))

\* the M/D of checkDate.format('M/D (ddd)'); the weekday name is left out
FormatMD(ymd) == NatToStr(ymd[2]) \o Slash \o NatToStr(ymd[3])

\* logs.find(l => l.date === dateStr): the index of the first match, 0 for none
FindLog(logs, dateStr) ==
  IF \E k \in 1..Len(logs) : logs[k].date = Str(dateStr)
  THEN CHOOSE k \in 1..Len(logs) :
         logs[k].date = Str(dateStr) /\ \A j \in 1..(k - 1) : logs[j].date # Str(dateStr)
  ELSE 0

\* meals && meals[dateStr]
HasMeals(meals, dateStr) == ~Falsy(meals) /\ dateStr \in DOMAIN meals.v

StepsMissing(log) == log.steps.t \in {"null", "undefined"}

\* every field checked on every day, today included
MissingFieldsEveryDay(log, i) ==
  (IF Falsy(log.weight) THEN <<"weight">> ELSE <<>>)
    \o (IF Falsy(log.waist) THEN <<"waist">> ELSE <<>>)
    \o (IF Falsy(log.calories_intake) THEN <<"calories">> ELSE <<>>)
    \o (IF StepsMissing(log) THEN <<"steps">> ELSE <<>>)

\* the labels stand for the Japanese field names of the source
MissingFields(log, i) ==
  (IF Falsy(log.weight) THEN <<"weight">> ELSE <<>>)
    \o (IF Falsy(log.waist) THEN <<"waist">> ELSE <<>>)
    \o (IF i > 0 /\ Falsy(log.calories_intake) THEN <<"calories">> ELSE <<>>)
    \o (IF i > 0 /\ StepsMissing(log) THEN <<"steps">> ELSE <<>>)

Warning(ymd, type, fields) ==
  [date |-> Str(FormatMD(ymd)), dateStr |-> Str(FormatYMD(ymd)), type |-> type,
   fields |-> fields]

\* if (i > 0) before the no_data warning: today's entry may still be missing
FlagsNoDataEveryDay(i) == TRUE
FlagsNoData(i) == i > 0

\* the warnings one pass of the loop pushes for day i (0 is today)
DayWarnings(logs, meals, today, i) ==
  LET checkDate == SubtractDays(today, i)
      dateStr == FormatYMD(checkDate)
      found == FindLog(logs, dateStr)
  IN IF found = 0
     THEN (IF FlagsNoData(i) THEN <<Warning(checkDate, "no_data", <<>>)>> ELSE <<>>)
     ELSE LET log == logs[found]
              missingFields == MissingFields(log, i)
          IN (IF i > 0 /\ ~Falsy(log.calories_intake) /\ ~HasMeals(meals, dateStr)
              THEN <<Warning(checkDate, "missing_meals", <<>>)>> ELSE <<>>)
               \o (IF Len(missingFields) > 0
                   THEN <<Warning(checkDate, "missing_fields", missingFields)>> ELSE <<>>)

\* for (let i = 0; i < 3; i++)
CheckedDays == 3

RECURSIVE WarningsFrom(_, _, _, _)
WarningsFrom(logs, meals, today, i) ==
  IF i >= CheckedDays THEN <<>>
  ELSE DayWarnings(logs, meals, today, i) \o WarningsFrom(logs, meals, today, i + 1)

\* the warnings checkDataCompleteness hands to displayWarnings
checkDataCompleteness(logs, meals, today) == WarningsFrom(logs, meals, today, 0)

(* ---------------------------------------------------------- settings --- *)
\* a non-empty string cell used as a property name; v is the name
SettingKey(name) == [t |-> "key", v |-> name]

\* isNaN(value) ? value : Number(value)
StoredSetting(value) == IF IsNaN(ToNumber(value)) THEN value ELSE ToNumber(value)

\* const settings = {}
NoProperties == [k \in {} |-> Undef]

\* settings[key] = ...
SetProperty(settings, key, value) ==
  [k \in DOMAIN settings \cup {key} |-> IF k = key THEN value ELSE settings[k]]

\* the loop of parseSettingsSheet from index i (counted from 0) on
RECURSIVE SettingsFrom(_, _, _)
SettingsFrom(rows, i, settings) ==
  IF i >= Len(rows) THEN settings
  ELSE LET key == Cell(rows[i + 1], 0)
           value == Cell(rows[i + 1], 1)
       IN IF ~Falsy(key) /\ value.t # "undefined"
          THEN SettingsFrom(rows, i + 1, SetProperty(settings, key.v, StoredSetting(value)))
          ELSE SettingsFrom(rows, i + 1, settings)

\* { ...defaults, ...settings }
SpreadMerge(defaults, settings) ==
  [k \in DOMAIN defaults \cup DOMAIN settings |->
     IF k \in DOMAIN settings THEN settings[k] ELSE defaults[k]]

parseSettingsSheet(rows) ==
  IF Len(rows) < 2 THEN getDefaultSettings
  ELSE SpreadMerge(getDefaultSettings, SettingsFrom(rows, 1, NoProperties))

(* ---------------------------------------------------- calorie target --- *)
\* new Date(s) of a date-only string YYYY-MM-DD: midnight UTC of that day, here
\* the day itself; any other string of the inputs gives an Invalid Date (NaN)
ParseIsoDate(s) ==
  IF /\ Len(s) = 10
     /\ AllDigits(SubSeq(s, 1, 4)) /\ s[5] = "-"
     /\ AllDigits(SubSeq(s, 6, 7)) /\ s[8] = "-"
     /\ AllDigits(SubSeq(s, 9, 10))
  THEN [t |-> "date",
        v |-> <<DigitsToNat(SubSeq(s, 1, 4)), DigitsToNat(SubSeq(s, 6, 7)),
                DigitsToNat(SubSeq(s, 9, 10))>>]
  ELSE NaN

\* a number that orders calendar days as their time values are ordered
DayOrder(ymd) == ymd[1] * 10000 + ymd[2] * 100 + ymd[3]

\* new Date('2026-01-20')
ChangeDate == ParseIsoDate(<<"2", "0", "2", "6", "-", "0", "1", "-", "2", "0">>)

\* date >= changeDate: false when either is an Invalid Date
AfterChangeDateOnly(date, changeDate) ==
  date.t = "date" /\ changeDate.t = "date" /\ DayOrder(date.v) > DayOrder(changeDate.v)
OnOrAfter(date, changeDate) ==
  date.t = "date" /\ changeDate.t = "date" /\ DayOrder(date.v) >= DayOrder(changeDate.v)

\* settings.goals || {}
GoalsOrEmpty(settings) ==
  IF Falsy(Get(settings, "goals")) THEN Obj(NoProperties) ELSE Get(settings, "goals")

\* goals.calories of an object or of a string (no such property)
GoalOf(goals, key) == IF goals.t = "obj" THEN Get(goals.v, key) ELSE Undef

\* x || fallback
OrDefault(x, fallback) == IF Falsy(x) THEN fallback ELSE x

getCalorieTargetForDate(dateStr, settings) ==
  LET date == ParseIsoDate(dateStr.v)
      goals == GoalsOrEmpty(settings)
  IN IF OnOrAfter(date, ChangeDate)
     THEN OrDefault(GoalOf(goals, "calories"), Num(270000))
     ELSE OrDefault(GoalOf(goals, "calories_before_0120"), Num(260000))

(* ------------------------------------------------------------- loads --- *)
\* getGoalHistory(): the two built-in entries, by date and calorie goal
getGoalHistory ==
  <<[date |-> Str(<<"2", "0", "2", "6", "-", "0", "1", "-", "0", "8">>),
     calories |-> Num(260000), current |-> FALSE],
    [date |-> Str(<<"2", "0", "2", "6", "-", "0", "1", "-", "2", "0">>),
     calories |-> Num(270000), current |-> TRUE]>>

\* the settings used when the settings sheet cannot be fetched or parsed
SettingsOnFailureEmpty == NoProperties
SettingsOnFailure == getDefaultSettings

\* localData.meals || {} and localData.goal_history || goalHistory
MealsOf(localData) ==
  IF Falsy(Get(localData, "meals")) THEN Obj(NoProperties) ELSE Get(localData, "meals")
GoalHistoryOf(localData) ==
  IF "goal_history" \in DOMAIN localData THEN localData.goal_history ELSE getGoalHistory

\* the data object loadFromGoogleSheets builds
\* let meals = {}: what the data holds when the local JSON cannot be had
MealsOnFailureNull == Null
MealsOnFailure == Obj(NoProperties)

SheetsData(settings, dailyLog, meals, goalHistory) ==
  [settings |-> settings,
   daily_log |-> parseInputSheet(dailyLog),
   weekly_measurements |-> <<>>,
   meals |-> meals,
   goal_history |-> goalHistory]

\* this.chartData = DataManager.prepareChartData(data, settings): what was
\* prepared is identified by the data it was prepared from
PreparedFrom(data) == [preparedFrom |-> data]

\* showError(message): the banner text; the message is identified by the error
ShowNoError(error) == Null
ShowError(error) == [t |-> "str", v |-> error]

\* a load attempt: an App.loadData call and the DataManager load it awaits
\*   pc: the fetch it is waiting for, or "done" / "failed"
\*   inputFetches: fetches of the mandatory source issued so far
\*   sourceFetch, settingsFetch, mealsFetch: how each fetch ended
NewLoad(source) ==
  [pc |-> IF source = "local" THEN "fetchLocalData" ELSE "fetchInput",
   source |-> source,
   inputFetches |-> 1,
   sourceFetch |-> "none",
   dailyLog |-> <<>>,
   settingsFetch |-> "none",
   settings |-> Null,
   mealsFetch |-> "none",
   data |-> Null,
   rendered |-> FALSE,
   inFlightAtStart |-> {},
   finished |-> 0]

\* the loads whose fetches are still awaited, and the number that have ended
InFlight == {k \in 1..Len(loads) : loads[k].pc \notin {"done", "failed"}}
Finished == Len(loads) - Cardinality(InFlight)

(* ------------------------------------------- waist, steps, calories --- *)
\* validWaist[0]
FirstValidIsLast(valid) == valid[Len(valid)]
FirstValid(valid) == valid[1]

calculateWaistChange(data) ==
  LET validWaist == SelectSeq(data, LAMBDA d : PresentPositive(d.waist))
  IN IF Len(validWaist) = 0 THEN [current |-> Null, change |-> Null]
     ELSE LET current == validWaist[Len(validWaist)].waist
              first == FirstValid(validWaist).waist
              change == current.v - first.v
          IN [current |-> current, change |-> Num(RoundOneDecimal(change))]

\* d.steps !== null && d.steps !== undefined
StepsPresentPositive(x) == x.t = "num" /\ x.v > 0
StepsPresent(x) == x.t \notin {"null", "undefined"}

\* Math.round(sum / length) of numbers of hundredths
RoundedMean(values) == Num(100 * RoundHalfUp(SumSeq(values), 100 * Len(values)))

getStepsData(data, settings) ==
  LET validSteps == SelectSeq(data, LAMBDA d : StepsPresent(d.steps))
      targetSteps == OrDefault(Get(settings, "target_steps"), Num(1000000))
      current == IF Len(validSteps) > 0 THEN validSteps[Len(validSteps)].steps ELSE Null
      last7Days == LastSevenDays(data)
      validWeekSteps == SelectSeq(last7Days, LAMBDA d : StepsPresent(d.steps))
      avgSteps == IF Len(validWeekSteps) > 0
                  THEN RoundedMean([k \in 1..Len(validWeekSteps) |-> validWeekSteps[k].steps.v])
                  ELSE Null
  IN [current |-> current, avgSteps |-> avgSteps, target |-> targetSteps]

\* d.calories_intake !== null
HasCalories(x) == x.t # "null"

\* the result has no date property when no entry qualifies
getYesterdayCalories(data, goals) ==
  LET logsWithCalories == SelectSeq(data, LAMBDA d : HasCalories(d.calories_intake))
  IN IF Len(logsWithCalories) = 0 THEN [calories |-> Null, diff |-> Null]
     ELSE LET latest == logsWithCalories[Len(logsWithCalories)]
          IN [calories |-> latest.calories_intake,
              diff |-> Minus(latest.calories_intake, Get(goals, "calories")),
              date |-> latest.date]

(* ---------------------------------------------------------- insights --- *)
\* The texts generateInsights writes are left out: a verdict is known by its
\* status, a suggestion by a label, the summary by a name for its icon and text
\* (celebratory, mixed, needs-improvement, no-data).
Verdict(status) == [status |-> status]
NoAdvice == [verdict |-> Null, improvements |-> <<>>, positives |-> <<>>]
Advice(verdict, improvements, positives) ==
  [verdict |-> verdict, improvements |-> improvements, positives |-> positives]

\* the calorie block: yesterdayLog.calories_intake against goals.calories || 2700
CaloriesInsight(yesterdayLog, goals) ==
  IF Falsy(yesterdayLog.calories_intake) THEN NoAdvice
  ELSE LET targetCalories == OrDefault(Get(goals, "calories"), Num(270000))
           diff == Minus(yesterdayLog.calories_intake, targetCalories)
       IN IF Greater(diff, 20000)
          THEN Advice(Verdict("negative"), <<"caloriesOver">>, <<>>)
          ELSE IF Greater(diff, 0)
          THEN Advice(Verdict("warning"), <<>>, <<>>)
          ELSE IF diff.t = "num" /\ diff.v >= 0 - 20000
          THEN Advice(Verdict("positive"), <<>>, <<"caloriesOk">>)
          ELSE Advice(Verdict("warning"), <<"caloriesShort">>, <<>>)

\* the steps block: Math.round((steps / targetSteps) * 100) against 70
StepsInsight(yesterdayLog, settings) ==
  LET targetSteps == OrDefault(Get(settings, "target_steps"), Num(1000000))
      steps == yesterdayLog.steps
  IN IF ~StepsPresent(steps) THEN NoAdvice
     ELSE LET stepsRatio == RoundHalfUp(100 * steps.v, targetSteps.v)
          IN IF steps.v >= targetSteps.v
             THEN Advice(Verdict("positive"), <<>>, <<"stepsAchieved">>)
             ELSE IF stepsRatio >= 70
             THEN Advice(Verdict("warning"), <<"walkMore">>, <<>>)
             ELSE Advice(Verdict("negative"), <<"walkMuchMore">>, <<>>)

\* the issues of the macro block
InsightIssuesWithoutCarbs(pDiff, fDiff, cDiff) ==
  (IF Less(pDiff, 0 - 2000) THEN <<"proteinDeficit">> ELSE <<>>)
    \o (IF Greater(fDiff, 2000) THEN <<"fatExcess">> ELSE <<>>)
InsightIssues(pDiff, fDiff, cDiff) ==
  (IF Less(pDiff, 0 - 2000) THEN <<"proteinDeficit">> ELSE <<>>)
    \o (IF Greater(fDiff, 2000) THEN <<"fatExcess">> ELSE <<>>)
    \o (IF Greater(cDiff, 5000) THEN <<"carbsExcess">> ELSE <<>>)

\* the macro block: yesterdayPfc against goals.protein || 200, goals.fat || 60,
\* goals.carbs || 340
PfcInsight(yesterdayPfc, goals) ==
  IF Falsy(yesterdayPfc) THEN NoAdvice
  ELSE LET pDiff == Minus(yesterdayPfc.v.protein, OrDefault(Get(goals, "protein"), Num(20000)))
           fDiff == Minus(yesterdayPfc.v.fat, OrDefault(Get(goals, "fat"), Num(6000)))
           cDiff == Minus(yesterdayPfc.v.carbs, OrDefault(Get(goals, "carbs"), Num(34000)))
           issues == InsightIssues(pDiff, fDiff, cDiff)
       IN IF Len(issues) = 0 /\ pDiff.v >= 0 - 1000 /\ fDiff.v <= 1000
          THEN Advice([status |-> "positive", issues |-> issues], <<>>, <<"pfcGood">>)
          ELSE IF Len(issues) > 0
          THEN Advice([status |-> "warning", issues |-> issues],
                      (IF Less(pDiff, 0 - 2000) THEN <<"moreProtein">> ELSE <<>>)
                        \o (IF Greater(fDiff, 2000) THEN <<"lessFat">> ELSE <<>>),
                      <<>>)
          ELSE Advice([status |-> "neutral", issues |-> issues], <<>>, <<>>)

\* !log of a log entry or of the undefined that logs.find() returns for none
NoLog(log) == log = Undef \/ log = Null

\* allLogs.filter(l => l.weight && l.date !== weightLog.date).slice(0, 7)
OtherWeights(allLogs, weightLog) ==
  LET others == SelectSeq(allLogs, LAMBDA l : ~Falsy(l.weight) /\ l.date # weightLog.date)
  IN SubSeq(others, 1, IF Len(others) < 7 THEN Len(others) ELSE 7)

\* the weight block: the weight of todayLog || yesterdayLog against the mean of
\* the other weights; diff = weight - sum / n is compared as n * weight - sum
WeightInsight(yesterdayLog, todayLog, allLogs) ==
  LET weightLog == IF NoLog(todayLog) THEN yesterdayLog ELSE todayLog
  IN IF NoLog(weightLog) \/ Falsy(weightLog.weight) THEN NoAdvice
     ELSE LET last7 == OtherWeights(allLogs, weightLog)
              n == Len(last7)
              sum == SumSeq([k \in 1..n |-> last7[k].weight.v])
              nDiff == n * weightLog.weight.v - sum
          IN IF n = 0 THEN Advice(Verdict("neutral"), <<>>, <<>>)
             ELSE IF nDiff < 30 * n /\ 0 - nDiff < 30 * n
             THEN Advice(Verdict("positive"), <<>>, <<"weightStable">>)
             ELSE IF nDiff > 50 * n
             THEN Advice(Verdict("warning"), <<"weightUp">>, <<>>)
             ELSE IF nDiff > 0
             THEN Advice(Verdict("neutral"), <<>>, <<>>)
             ELSE Advice(Verdict("positive"), <<>>, <<>>)

\* allLogs.find(l => l.waist && l.date !== todayLog.date): its index, 0 for none
FindOtherWaist(allLogs, todayLog) ==
  LET hits == {k \in 1..Len(allLogs) :
                 ~Falsy(allLogs[k].waist) /\ allLogs[k].date # todayLog.date}
  IN IF hits = {} THEN 0 ELSE CHOOSE k \in hits : \A j \in hits : k <= j

\* the waist block: today's waist against the first other waist of allLogs
WaistInsight(todayLog, allLogs) ==
  IF NoLog(todayLog) \/ Falsy(todayLog.waist) THEN NoAdvice
  ELSE LET found == FindOtherWaist(allLogs, todayLog)
       IN IF found = 0 THEN Advice(Verdict("neutral"), <<>>, <<>>)
          ELSE LET diff == todayLog.waist.v - allLogs[found].waist.v
               IN IF diff < 50 /\ 0 - diff < 50
                  THEN Advice(Verdict("neutral"), <<>>, <<>>)
                  ELSE IF diff < 0
                  THEN Advice(Verdict("positive"), <<>>, <<"waistDown">>)
                  ELSE Advice(Verdict("warning"), <<>>, <<>>)

\* the overall summary
SummaryAlwaysCelebratory(hasPositives, hasImprovements) ==
  [status |-> "positive", kind |-> "celebratory"]
SummaryOf(hasPositives, hasImprovements) ==
  IF hasPositives /\ ~hasImprovements THEN [status |-> "positive", kind |-> "celebratory"]
  ELSE IF hasPositives /\ hasImprovements THEN [status |-> "neutral", kind |-> "mixed"]
  ELSE IF hasImprovements THEN [status |-> "warning", kind |-> "needs-improvement"]
  ELSE [status |-> "neutral", kind |-> "no-data"]

generateInsights(yesterdayLog, todayLog, allLogs, goals, settings, yesterdayPfc) ==
  LET calories == CaloriesInsight(yesterdayLog, goals)
      steps == StepsInsight(yesterdayLog, settings)
      pfc == PfcInsight(yesterdayPfc, goals)
      weight == WeightInsight(yesterdayLog, todayLog, allLogs)
      waist == WaistInsight(todayLog, allLogs)
      improvements == calories.improvements \o steps.improvements \o pfc.improvements
                        \o weight.improvements \o waist.improvements
      positives == calories.positives \o steps.positives \o pfc.positives
                     \o weight.positives \o waist.positives
  IN [summary |-> SummaryOf(Len(positives) > 0, Len(improvements) > 0),
      calories |-> calories.verdict,
      steps |-> steps.verdict,
      pfc |-> pfc.verdict,
      weight |-> weight.verdict,
      waist |-> waist.verdict,
      improvements |-> improvements,
      positives |-> positives]

(* ------------------------------------------------- prepareChartData --- *)
\* new Date(a.date) - new Date(b.date) < 0: false when either is an Invalid Date
NeverBefore(a, b) == FALSE
Before(a, b) ==
  LET da == ParseIsoDate(a.date.v)
      db == ParseIsoDate(b.date.v)
  IN da.t = "date" /\ db.t = "date" /\ DayOrder(da.v) < DayOrder(db.v)

\* Array.prototype.sort with that comparator: stable, so an entry goes behind
\* every entry it is not before
RECURSIVE InsertByDate(_, _)
InsertByDate(sorted, x) ==
  IF sorted = <<>> \/ ~Before(x, sorted[Len(sorted)]) THEN Append(sorted, x)
  ELSE Append(InsertByDate(SubSeq(sorted, 1, Len(sorted) - 1), x), sorted[Len(sorted)])
RECURSIVE SortByDate(_)
SortByDate(log) ==
  IF log = <<>> THEN <<>>
  ELSE InsertByDate(SortByDate(SubSeq(log, 1, Len(log) - 1)), log[Len(log)])

\* [...dailyLog]: the sort works on a copy, the array passed in keeps its order
DailyLogAfterSort(dailyLog) == dailyLog

\* the object prepareChartData returns, without the labels and recentLogs,
\* which depend on the time zone and the clock
prepareChartData(data, settings) ==
  LET dailyLog == IF "daily_log" \in DOMAIN data THEN data.daily_log ELSE <<>>
      goals == IF Falsy(Get(settings, "goals")) THEN StatsFallbackGoals ELSE settings.goals
      sortedDaily == SortByDate(dailyLog)
      waistData == SelectSeq(sortedDaily, LAMBDA d : d.waist # Null /\ Greater(d.waist, 0))
      targetSteps == OrDefault(Get(settings, "target_steps"), Num(1000000))
  IN [weight |->
        [data |-> [k \in 1..Len(sortedDaily) |-> OrDefault(sortedDaily[k].weight, Null)],
         movingAvg |-> calculateMovingAverage(sortedDaily, "weight", 7),
         targetLine |-> [k \in 1..Len(sortedDaily) |-> Get(settings, "target_weight")]],
      calories |->
        [intake |-> [k \in 1..Len(sortedDaily) |-> OrDefault(sortedDaily[k].calories_intake, Null)],
         targetLine |-> [k \in 1..Len(sortedDaily) |->
                           getCalorieTargetForDate(sortedDaily[k].date, settings)]],
      waist |-> [data |-> [k \in 1..Len(waistData) |-> waistData[k].waist]],
      steps |->
        [data |-> [k \in 1..Len(sortedDaily) |->
                     IF sortedDaily[k].steps # Undef THEN sortedDaily[k].steps ELSE Null],
         target |-> targetSteps,
         targetLine |-> [k \in 1..Len(sortedDaily) |-> targetSteps]],
      stats |-> calculateWeeklyStats(sortedDaily, settings, Get(data, "meals")),
      weightChange |-> calculateWeightChange(sortedDaily, settings),
      waistChange |-> calculateWaistChange(sortedDaily),
      stepsData |-> getStepsData(sortedDaily, settings),
      yesterdayCalories |-> getYesterdayCalories(sortedDaily, goals.v),
      meals |-> OrDefault(Get(data, "meals"), Obj(NoProperties)),
      plan |-> OrDefault(Get(data, "plan"), Null)]

(* --------------------------------------------------- getMealsForDate --- *)
\* this.cachedData.meals[date] || null
AnyMealsEntry(meals, date) ==
  IF DOMAIN meals.v # {} THEN meals.v[CHOOSE d \in DOMAIN meals.v : TRUE] ELSE Null
MealsEntry(meals, date) == IF date \in DOMAIN meals.v THEN meals.v[date] ELSE Null

getMealsForDate(cache, date) ==
  IF cache = Null \/ Falsy(Get(cache, "meals")) THEN Null
  ELSE MealsEntry(cache.meals, date)

(* ------------------------------------------------------------ inputs --- *)
Comma == <<",">>

\* the encodings of the calendar date ymd = <<year, month, day>> a sheet can hold
CtorCell(ymd) ==
  Str(DatePrefix \o NatToStr(ymd[1]) \o Comma \o NatToStr(ymd[2] - 1) \o Comma
        \o NatToStr(ymd[3]) \o <<")">>)
FullSlashCell(ymd) ==
  Str(NatToStr(ymd[1]) \o Slash \o NatToStr(ymd[2]) \o Slash \o NatToStr(ymd[3]))
FullSlashPaddedCell(ymd) ==
  Str(NatToStr(ymd[1]) \o Slash \o PadStart2(NatToStr(ymd[2])) \o Slash
        \o PadStart2(NatToStr(ymd[3])))
PartialSlashCell(ymd) == Str(NatToStr(ymd[2]) \o Slash \o NatToStr(ymd[3]))
PartialSlashPaddedCell(ymd) ==
  Str(PadStart2(NatToStr(ymd[2])) \o Slash \o PadStart2(NatToStr(ymd[3])))
CanonicalCell(ymd) == Str(IsoDatePart(ymd))

SampleDates == {<<2026, 1, 8>>, <<2025, 10, 15>>, <<2026, 12, 31>>}
ManyDates == {<<y, m, d>> : y \in {2025, 2026}, m \in {1, 9, 10, 12}, d \in {1, 9, 10, 31}}

StringShapedCells(dates) ==
  UNION {{CtorCell(d), FullSlashCell(d), FullSlashPaddedCell(d),
          PartialSlashCell(d), PartialSlashPaddedCell(d)} : d \in dates}

\* date cells in one of the supported encodings
SupportedDateCells(dates) ==
  StringShapedCells(dates) \cup {NativeDate(d[1], d[2], d[3]) : d \in dates}

\* date cells that hold nothing
EmptyDateCells == {Str(<<>>), Null, Undef}

\* non-empty date cells in none of the supported encodings
MalformedDateCells ==
  {Str(<<"a", "b", "c">>),
   Str(DatePrefix \o <<"f", "o", "o", ")">>),
   Str(<<"2", "0", "2", "6", "/", "1">>),
   Str(<<"1", "/", "8", "/", "2", "0", "2", "6">>),
   Str(<<"1", "-", "8">>),
   Str(<<"2", "0", "2", "6", "0", "1", "0", "8">>),
   Num(4603000)}

DateCells ==
  SupportedDateCells(SampleDates) \cup {CanonicalCell(d) : d \in SampleDates}
    \cup EmptyDateCells \cup {Num(0)} \cup MalformedDateCells

\* what the numeric columns B..E can hold
NumCells ==
  {Str(<<>>), Undef, Null,
   Str(<<"a", "b", "c">>), Str(<<" ">>),
   Str(<<"0">>), Num(0),
   Str(<<"7", "2", ".", "5">>), Num(7250), Str(<<"-", "3">>)}

HeaderRow == <<Str(<<"d", "a", "t", "e">>)>>
NoteCell == Str(<<"o", "k">>)

\* a row with every column filled, and a row that ends after its date cell
FilledRow(dateCell) ==
  <<dateCell, Str(<<"7", "2", ".", "5">>), Num(8500), Num(800000), Str(<<"2", "5", "0", "0">>), NoteCell>>
ShortRow(dateCell) == <<dateCell>>

SampleRows ==
  {FilledRow(c) : c \in DateCells}
    \cup {ShortRow(c) : c \in {Str(<<>>), Str(<<"a", "b", "c">>), PartialSlashCell(<<2026, 1, 8>>)}}

RECURSIVE SeqsUpTo(_, _)
SeqsUpTo(S, n) ==
  IF n = 0 THEN {<<>>}
  ELSE LET shorter == SeqsUpTo(S, n - 1)
       IN shorter \cup {Append(q, x) : q \in {r \in shorter : Len(r) = n - 1}, x \in S}

\* sheets of up to MaxRows data rows, with and without the header row
DateSheets(maxRows) ==
  {<<>>} \cup {<<HeaderRow>> \o body : body \in SeqsUpTo(SampleRows, maxRows)}

\* one data row per encoding of many dates
ShapeSheets ==
  {<<HeaderRow, ShortRow(c)>> : c \in SupportedDateCells(ManyDates)}

\* one data row whose numeric columns range over NumCells, two columns at a time
NumSheets ==
  {<<HeaderRow, <<PartialSlashCell(<<2026, 1, 8>>), w, x, Num(800000), Num(250000)>>>> :
     w \in NumCells, x \in NumCells}
    \cup
  {<<HeaderRow, <<PartialSlashCell(<<2026, 1, 8>>), Num(7250), Num(8500), st, cal>>>> :
     st \in NumCells, cal \in NumCells}

InputSheets(maxRows) == DateSheets(maxRows) \cup ShapeSheets \cup NumSheets


\* the k-th entry of a daily log: the days 2026-02-24, 2026-02-25, ...
LogDate(k) == CanonicalCell(IF k <= 5 THEN <<2026, 2, 23 + k>> ELSE <<2026, 3, k - 5>>)

LogEntry(date, weight, waist, steps, calories) ==
  [date |-> date, weight |-> weight, waist |-> waist, steps |-> steps,
   calories_intake |-> calories, protein |-> Null, fat |-> Null, carbs |-> Null,
   notes |-> Str(<<>>)]

\* a log whose entries differ in their weight only
WeightLog(weights) ==
  [k \in 1..Len(weights) |-> LogEntry(LogDate(k), weights[k], Null, Null, Null)]

\* long logs over an absent and two positive weights, short logs over every
\* kind of value
MovingAvgWeights == {Null, Num(7000), Num(7125)}
MovingAvgShortWeights == {Null, Undef, Num(0), Num(0 - 100), Num(7000), Num(7125)}
MovingAvgLogs(maxLong, maxShort) ==
  {WeightLog(w) : w \in SeqsUpTo(MovingAvgWeights, maxLong)}
    \cup {WeightLog(w) : w \in SeqsUpTo(MovingAvgShortWeights, maxShort)}

ChangeWeights == {Null, Num(0), Num(10000), Num(9500), Num(9525)}
ChangeLogs(maxLen) == {WeightLog(w) : w \in SeqsUpTo(ChangeWeights, maxLen)}
ChangeSettings ==
  {[start_weight |-> Num(sw), target_weight |-> Num(tw)] :
     sw \in {10000, 11920}, tw \in {9000, 9004}}


\* meal items: grams in hundredths; an item may carry no macro fields at all
Item(p, f, c) == [protein |-> Num(p), fat |-> Num(f), carbs |-> Num(c)]
BareItem == [calories |-> Num(30000)]
EmptyObject == [x \in {} |-> Undef]

\* marks a date the meals map has no entry for
NoMeals == [absent |-> <<>>]

DayMealsSamples ==
  {[breakfast |-> <<Item(3000, 1000, 4000)>>],
   [lunch |-> <<Item(900, 400, 900)>>, dinner |-> <<>>],
   [breakfast |-> <<Item(297, 536, 297)>>],
   [exercise |-> <<Item(1000, 0, 0)>>],
   [breakfast |-> <<>>],
   [snack |-> <<BareItem>>],
   [breakfast |-> <<Item(2000, 500, 3000), Item(0, 0, 2500)>>,
    dinner |-> <<Item(4000, 2000, 6000)>>, exercise |-> <<BareItem>>],
   EmptyObject}

\* the meals map with the given DayMeals (or none) for three dates
MealsMap(d1, m1, d2, m2, d3, m3) ==
  LET dom == {d \in {d1, d2, d3} :
                (d = d1 /\ m1 # NoMeals) \/ (d = d2 /\ m2 # NoMeals) \/ (d = d3 /\ m3 # NoMeals)}
  IN Obj([d \in dom |->
            IF d = d1 /\ m1 # NoMeals THEN m1
            ELSE IF d = d2 /\ m2 # NoMeals THEN m2 ELSE m3])

\* logs for the weekly statistics: every field present, or sparse
FullLog(n) ==
  [k \in 1..n |-> LogEntry(LogDate(k), Num(7000 + 10 * k), Num(8500), Num(800000), Num(250000 + 1000 * k))]
SparseLog(n) ==
  [k \in 1..n |->
     LogEntry(LogDate(k), IF k % 2 = 0 THEN Null ELSE Num(7000 + 15 * k), Null, Null,
              IF k % 3 = 0 THEN Num(0) ELSE Num(250050))]

SettingsWithoutGoals == [getDefaultSettings EXCEPT !.goals = Undef]

StatsLogVariants(n) ==
  {[data |-> FullLog(n), settings |-> getDefaultSettings],
   [data |-> SparseLog(n), settings |-> getDefaultSettings],
   [data |-> FullLog(n), settings |-> SettingsWithoutGoals]}

BurnWeights == {Null, Undef, Num(0), Num(9000), Num(11920), Num(7255)}
BurnSteps == {Null, Undef, Num(0), Num(1000000), Num(812300)}
BurnSettings ==
  {[getDefaultSettings EXCEPT !.height = h, !.age = a, !.gender = g] :
     h \in {Undef, Num(0), Num(18400), Num(17050)},
     a \in {Undef, Num(3000), Num(4500)},
     g \in {Str(<<"m", "a", "l", "e">>), Str(<<"f", "e", "m", "a", "l", "e">>)}}

PfcProtein == {Null, Undef, Num(0), Num(15000), Num(17400), Num(17500), Num(19500), Num(21500), Num(21600)}
PfcFat == {Null, Num(0), Num(5800), Num(7300), Num(7400), Num(7800), Num(7900), Num(9000)}
PfcCarbs == {Null, Num(0), Num(30000), Num(37500), Num(37600)}
PfcGoals == {DefaultGoals, Null, Undef}


\* today and the three days before it, written out
DayRuns ==
  {<<<<2026, 3, 1>>, <<2026, 2, 28>>, <<2026, 2, 27>>, <<2026, 2, 26>>>>,
   <<<<2026, 1, 1>>, <<2025, 12, 31>>, <<2025, 12, 30>>, <<2025, 12, 29>>>>,
   <<<<2024, 3, 1>>, <<2024, 2, 29>>, <<2024, 2, 28>>, <<2024, 2, 27>>>>}

\* what the log can hold for one day: no entry, or one of these entries
NoEntry == [absent |-> <<>>]
DayEntries(date) ==
  {LogEntry(date, Num(7000), Num(8500), Num(800000), Num(250000)),
   LogEntry(date, Null, Num(8500), Num(800000), Num(250000)),
   LogEntry(date, Num(7000), Null, Num(800000), Null),
   LogEntry(date, Num(7000), Num(8500), Num(0), Num(250000)),
   LogEntry(date, Num(0), Num(8500), Null, Num(0)),
   LogEntry(date, Null, Null, Null, Null)}

\* the log, newest first, of the chosen entries
LogOf(choices) == SelectSeq(choices, LAMBDA e : e # NoEntry)

SomeDayMeals == [breakfast |-> <<Item(3000, 1000, 4000)>>]

\* the meals maps tried for a run of days
CompletenessMeals(run) ==
  {Null,
   Obj(EmptyObject),
   Obj([d \in {FormatYMD(run[2])} |-> SomeDayMeals]),
   Obj([d \in {FormatYMD(run[1]), FormatYMD(run[3])} |-> SomeDayMeals])}

\* the settings sheet: a header row and rows of a key cell and a value cell
SettingsHeaderRow == <<Str(<<"k", "e", "y">>), Str(<<"v", "a", "l", "u", "e">>)>>
SettingKeyCells == {SettingKey("height"), SettingKey("goals"), SettingKey("memo"), Str(<<>>)}
SettingValueCells ==
  {Num(17050), Num(0), Str(<<"1", "7", "5">>), Str(<<"1", "2", ".", "5">>),
   Str(<<"a", "b", "c">>), Str(<<>>), Str(<<" ">>)}
SettingRows ==
  {<<k, v>> : k \in SettingKeyCells, v \in SettingValueCells}
    \cup {<<k>> : k \in SettingKeyCells}
SettingsSheets(maxRows) ==
  {<<>>} \cup {<<SettingsHeaderRow>> \o body : body \in SeqsUpTo(SettingRows, maxRows)}

\* the dates and settings handed to getCalorieTargetForDate
TargetDays ==
  {<<2025, 1, 25>>, <<2025, 12, 31>>, <<2026, 1, 8>>, <<2026, 1, 19>>, <<2026, 1, 20>>,
   <<2026, 1, 21>>, <<2026, 2, 1>>, <<2027, 1, 1>>}
TargetDateStrings == {CanonicalCell(d) : d \in TargetDays} \cup {Str(<<"a", "b", "c">>)}
TargetGoalValues(default) == {Undef, Num(0), Num(default), Num(default - 20000)}
TargetSettings ==
  {[goals |-> Obj([calories |-> c, calories_before_0120 |-> b])] :
     c \in TargetGoalValues(270000), b \in TargetGoalValues(260000)}
    \cup {[goals |-> Str(<<"a", "b", "c">>)], NoProperties, getDefaultSettings}

\* what the fetches of a load can bring
InputResponses ==
  {<<HeaderRow, FilledRow(PartialSlashCell(<<2026, 1, 8>>))>>,
   <<HeaderRow, FilledRow(PartialSlashCell(<<2026, 1, 9>>)),
     ShortRow(PartialSlashCell(<<2026, 1, 10>>))>>}
SettingsResponses == {<<SettingsHeaderRow, <<SettingKey("height"), Num(17050)>>>>}
\* fetch rejected, response not ok, no setResponse(...) in the text, JSON.parse throws
SheetErrors == {"rejected", "notOk", "noMatch", "badJson"}
\* fetch rejected, response not ok, response.json() throws
LocalErrors == {"rejected", "notOk", "badJson"}
OtherGoalHistory ==
  <<[date |-> CanonicalCell(<<2026, 2, 1>>), calories |-> Num(250000), current |-> TRUE]>>
\* the local JSON as the meals source of a sheets load
LocalMealsFiles ==
  {[meals |-> Obj([d \in {FormatYMD(<<2026, 1, 8>>)} |-> SomeDayMeals]),
    goal_history |-> OtherGoalHistory],
   NoProperties}
\* the local JSON as the data of a local load
LocalDataFiles ==
  {[settings |-> getDefaultSettings,
    daily_log |-> <<LogEntry(CanonicalCell(<<2026, 1, 7>>), Num(11920), Num(10000), Null, Null)>>,
    meals |-> Obj([d \in {FormatYMD(<<2026, 1, 7>>)} |-> SomeDayMeals])],
   [settings |-> getDefaultSettings,
    daily_log |-> <<>>]}

\* logs whose entries differ in their waist only
WaistLog(waists) ==
  [k \in 1..Len(waists) |-> LogEntry(LogDate(k), Null, waists[k], Null, Null)]
WaistValues == {Null, Undef, Num(0), Num(0 - 100), Num(10000), Num(9550), Num(9545)}
WaistLogs(maxLen) == {WaistLog(w) : w \in SeqsUpTo(WaistValues, maxLen)}

\* logs whose entries differ in their steps only: long ones over few values,
\* short ones over every kind of value
StepsLog(steps) ==
  [k \in 1..Len(steps) |-> LogEntry(LogDate(k), Null, Null, steps[k], Null)]
StepsValues == {Null, Num(0), Num(800100)}
StepsShortValues == {Null, Undef, Num(0), Num(800000), Num(800100), Num(1250000)}
StepsTargets ==
  {NoProperties, [target_steps |-> Num(0)], [target_steps |-> Num(800000)], getDefaultSettings}
StepsInputs(maxLong, maxShort) ==
  {[data |-> StepsLog(s), settings |-> getDefaultSettings] : s \in SeqsUpTo(StepsValues, maxLong)}
    \cup {[data |-> StepsLog(s), settings |-> t] :
            s \in SeqsUpTo(StepsShortValues, maxShort), t \in StepsTargets}

\* logs whose entries differ in their calorie intake only
CaloriesLog(calories) ==
  [k \in 1..Len(calories) |-> LogEntry(LogDate(k), Null, Null, Null, calories[k])]
CaloriesValues == {Null, Undef, Num(0), Num(250000), Num(290000)}
CaloriesLogs(maxLen) == {CaloriesLog(c) : c \in SeqsUpTo(CaloriesValues, maxLen)}
CaloriesGoals == {DefaultGoals.v, StatsFallbackGoals.v, NoProperties}

\* the logs handed to generateInsights: today 2026-02-28, yesterday, two older days
InsightToday == CanonicalCell(<<2026, 2, 28>>)
InsightYesterday == CanonicalCell(<<2026, 2, 27>>)
InsightOlderLogs ==
  {<<>>,
   <<LogEntry(CanonicalCell(<<2026, 2, 26>>), Num(9000), Num(9000), Null, Null),
     LogEntry(CanonicalCell(<<2026, 2, 25>>), Num(9010), Null, Null, Null)>>}
InsightCalories ==
  {Null, Undef, Num(0), Num(295000), Num(290000), Num(280000), Num(270000), Num(250000),
   Num(240000)}
InsightSteps ==
  {Null, Undef, Num(0), Num(690000), Num(695000), Num(700000), Num(999900), Num(1000000),
   Num(1200000)}
InsightPfc ==
  {Null,
   Obj(Item(19500, 5800, 32500)),
   Obj(Item(15000, 9000, 30000)),
   Obj(Item(18500, 7500, 32500))}
InsightTodayLogs ==
  {Undef}
    \cup {LogEntry(InsightToday, w, Null, Null, Null) :
            w \in {Null, Num(9000), Num(9040), Num(9100), Num(8900)}}
    \cup {LogEntry(InsightToday, Num(9000), x, Null, Null) :
            x \in {Num(9000), Num(8900), Num(9100)}}
InsightGoals == {DefaultGoals.v, NoProperties}

\* day totals and goals handed to both macro evaluations
MacroTotals ==
  {Item(p, f, c) : p \in {15000, 17400, 17500, 18500, 19500, 21600},
                   f \in {4300, 5800, 6800, 7300, 7800, 7900},
                   c \in {100, 32500, 37500, 37600}}
MacroGoals ==
  {DefaultGoals.v,
   [protein |-> Num(20000), fat |-> Num(6000), carbs |-> Num(34000)]}

BurnGenders == {Str(<<"m", "a", "l", "e">>), Str(<<"f", "e", "m", "a", "l", "e">>), Undef}

\* logs for prepareChartData: dated in order, and one whose second entry
\* repeats the first date
MaxChartLog == 8
RepeatedDateLog(n) ==
  [k \in 1..n |-> IF k = 2 THEN [FullLog(n)[k] EXCEPT !.date = LogDate(1)] ELSE FullLog(n)[k]]
ChartLogs(n) == {FullLog(n), SparseLog(n), RepeatedDateLog(n)}
\* rearrangements of 1..n: none, reversed, rotated, first two swapped
ChartOrders(n) ==
  {[k \in 1..n |-> k],
   [k \in 1..n |-> n + 1 - k],
   [k \in 1..n |-> (k % n) + 1],
   [k \in 1..n |-> IF n >= 2 /\ k <= 2 THEN 3 - k ELSE k]}
ChartMeals ==
  {Undef,
   MealsMap(LogDate(1).v, [breakfast |-> <<Item(3000, 1000, 4000)>>],
            LogDate(2).v, [lunch |-> <<Item(900, 400, 900)>>, dinner |-> <<>>],
            LogDate(3).v, NoMeals),
   MealsMap(LogDate(1).v, NoMeals, LogDate(2).v, [breakfast |-> <<Item(297, 536, 297)>>],
            LogDate(3).v, EmptyObject)}
ChartData(log, meals) ==
  [settings |-> getDefaultSettings, daily_log |-> log, weekly_measurements |-> <<>>,
   meals |-> meals, goal_history |-> getGoalHistory]

MealsDates == {FormatYMD(<<2026, 1, 7>>), FormatYMD(<<2026, 1, 8>>), FormatYMD(<<2026, 1, 9>>)}

(* ----------------------------------------------------------- actions --- *)
Init ==
  /\ op = "none"
  /\ args = <<>>
  /\ ret = <<>>
  /\ dataSource = "sheets"
  /\ currentData = Null
  /\ chartData = Null
  /\ cachedData = Null
  /\ errorMessage = Null
  /\ loading = FALSE
  /\ loads = <<>>

\* No call has been made yet: each behaviour is one call with one input.
Idle == op = "none"

\* DataManager.parseInputSheet(rows)
DoParseInputSheet ==
  \E rows \in InputSheets(MaxRows) :
    /\ Idle
    /\ op' = "parseInputSheet"
    /\ args' = rows
    /\ ret' = parseInputSheet(rows)
    /\ UNCHANGED appVars

\* DataManager.calculateMovingAverage(data, 'weight', 7)
DoCalculateMovingAverage ==
  \E data \in MovingAvgLogs(MaxLog, MaxShortLog) :
    /\ Idle
    /\ op' = "calculateMovingAverage"
    /\ args' = data
    /\ ret' = calculateMovingAverage(data, "weight", 7)
    /\ UNCHANGED appVars

\* DataManager.calculateWeightChange(data, settings)
DoCalculateWeightChange ==
  \E data \in ChangeLogs(MaxWeights), settings \in ChangeSettings :
    /\ Idle
    /\ op' = "calculateWeightChange"
    /\ args' = [data |-> data, settings |-> settings]
    /\ ret' = calculateWeightChange(data, settings)
    /\ UNCHANGED appVars

\* DataManager.calculateWeeklyStats(data, settings, meals)
DoCalculateWeeklyStats ==
  \E n \in 0..MaxStatsLog :
    \E variant \in StatsLogVariants(n) :
      \E meals \in {Null, Undef}
                  \cup {MealsMap(LogDate(1).v, m1, LogDate(2).v, m2, LogDate(MaxStatsLog).v, m3) :
                          m1 \in DayMealsSamples \cup {NoMeals},
                          m2 \in DayMealsSamples \cup {NoMeals},
                          m3 \in DayMealsSamples \cup {NoMeals}} :
        /\ Idle
        /\ op' = "calculateWeeklyStats"
        /\ args' = [data |-> variant.data, settings |-> variant.settings, meals |-> meals]
        /\ ret' = calculateWeeklyStats(variant.data, variant.settings, meals)
        /\ UNCHANGED appVars

\* DataManager.calculateEstimatedBurn(weight, steps, settings)
DoCalculateEstimatedBurn ==
  \E weight \in BurnWeights, steps \in BurnSteps, settings \in BurnSettings :
    /\ Idle
    /\ op' = "calculateEstimatedBurn"
    /\ args' = [weight |-> weight, steps |-> steps, settings |-> settings]
    /\ ret' = calculateEstimatedBurn(weight, steps, settings)
    /\ UNCHANGED appVars

\* DataManager.evaluatePFC(log, goals)
DoEvaluatePFC ==
  \E protein \in PfcProtein, fat \in PfcFat, carbs \in PfcCarbs, goals \in PfcGoals :
    /\ Idle
    \* the table calls it with the day's totals only when one of them is > 0
    /\ ~(protein = Num(0) /\ fat = Num(0) /\ carbs = Num(0))
    /\ op' = "evaluatePFC"
    /\ args' = [log |-> [protein |-> protein, fat |-> fat, carbs |-> carbs], goals |-> goals]
    /\ ret' = evaluatePFC(args'.log, goals)
    /\ UNCHANGED appVars

\* App.checkDataCompleteness(logs, meals) on the day dayjs() returns
DoCheckDataCompleteness ==
  \E run \in DayRuns :
    \E e0 \in DayEntries(CanonicalCell(run[1])) \cup {NoEntry},
       e1 \in DayEntries(CanonicalCell(run[2])) \cup {NoEntry},
       e2 \in DayEntries(CanonicalCell(run[3])) \cup {NoEntry},
       e3 \in {LogEntry(CanonicalCell(run[4]), Null, Null, Null, Null), NoEntry},
       meals \in CompletenessMeals(run) :
      /\ Idle
      /\ op' = "checkDataCompleteness"
      /\ args' = [run |-> run, logs |-> LogOf(<<e0, e1, e2, e3>>), meals |-> meals]
      /\ ret' = checkDataCompleteness(args'.logs, meals, run[1])
      /\ UNCHANGED appVars

\* DataManager.parseSettingsSheet(rows)
DoParseSettingsSheet ==
  \E rows \in SettingsSheets(MaxSettingsRows) :
    /\ Idle
    /\ op' = "parseSettingsSheet"
    /\ args' = rows
    /\ ret' = parseSettingsSheet(rows)
    /\ UNCHANGED appVars

\* DataManager.getCalorieTargetForDate(dateStr, settings)
DoGetCalorieTargetForDate ==
  \E dateStr \in TargetDateStrings, settings \in TargetSettings :
    /\ Idle
    /\ op' = "getCalorieTargetForDate"
    /\ args' = [dateStr |-> dateStr, settings |-> settings]
    /\ ret' = getCalorieTargetForDate(dateStr, settings)
    /\ UNCHANGED appVars

\* The steps of loading run after a pure call only in separate behaviours.
Loading == op \in {"none", "loadData", "getMealsForDate"}
LoadStep == op' = "loadData" /\ UNCHANGED <<args, ret>>

\* App.init / App.loadFromSheets() / App.handleDataSourceChange('local'): the
\* data source is set and App.loadData() runs up to its first await, which is
\* the fetch of the mandatory source
StartLoadData ==
  \E source \in {"sheets", "local"} :
    /\ Loading
    /\ Len(loads) < MaxLoads
    /\ dataSource' = source
    /\ loading' = TRUE
    /\ loads' = Append(loads, [NewLoad(source) EXCEPT !.inFlightAtStart = InFlight])
    /\ LoadStep
    /\ UNCHANGED <<currentData, chartData, cachedData, errorMessage>>

\* the catch and finally of App.loadData after the load has thrown
LoadFails(i, error) ==
  /\ loads' = [loads EXCEPT ![i].pc = "failed", ![i].sourceFetch = "failed",
                            ![i].finished = Finished + 1]
  /\ errorMessage' = ShowError(error)
  /\ loading' = FALSE
  /\ LoadStep
  /\ UNCHANGED <<dataSource, currentData, chartData, cachedData>>

\* the rest of App.loadData after the load has returned data
LoadReturns(i, data, load) ==
  /\ cachedData' = data
  /\ currentData' = data
  /\ chartData' = PreparedFrom(data)
  /\ errorMessage' = Null
  /\ loading' = FALSE
  /\ loads' = [loads EXCEPT ![i] = [load EXCEPT !.pc = "done", !.data = data, !.rendered = TRUE,
                                              !.finished = Finished + 1]]
  /\ LoadStep
  /\ UNCHANGED dataSource

\* fetchSheetPublic('Input') throws
InputFetchFails ==
  \E i \in 1..Len(loads), error \in SheetErrors :
    /\ Loading
    /\ loads[i].pc = "fetchInput"
    /\ LoadFails(i, error)

\* fetchSheetPublic('Input') returns rows; the settings sheet is fetched next
InputFetchReturns ==
  \E i \in 1..Len(loads), rows \in InputResponses :
    /\ Loading
    /\ loads[i].pc = "fetchInput"
    /\ loads' = [loads EXCEPT ![i].pc = "fetchSettings", ![i].sourceFetch = "ok",
                              ![i].dailyLog = rows]
    /\ LoadStep
    /\ UNCHANGED <<dataSource, currentData, chartData, cachedData, errorMessage, loading>>

\* fetchSheetPublic('settings') throws: the inner catch; the local JSON is fetched next
SettingsFetchFails ==
  \E i \in 1..Len(loads), error \in SheetErrors :
    /\ Loading
    /\ loads[i].pc = "fetchSettings"
    /\ loads' = [loads EXCEPT ![i].pc = "fetchLocal", ![i].settingsFetch = "failed",
                              ![i].settings = SettingsOnFailure]
    /\ LoadStep
    /\ UNCHANGED <<dataSource, currentData, chartData, cachedData, errorMessage, loading>>

\* fetchSheetPublic('settings') returns rows
SettingsFetchReturns ==
  \E i \in 1..Len(loads), rows \in SettingsResponses :
    /\ Loading
    /\ loads[i].pc = "fetchSettings"
    /\ loads' = [loads EXCEPT ![i].pc = "fetchLocal", ![i].settingsFetch = "ok",
                              ![i].settings = parseSettingsSheet(rows)]
    /\ LoadStep
    /\ UNCHANGED <<dataSource, currentData, chartData, cachedData, errorMessage, loading>>

\* the fetch of the local JSON by loadFromGoogleSheets fails: meals stays {} and
\* goalHistory the built-in one; the data is built, cached and returned
MealsFetchFails ==
  \E i \in 1..Len(loads), error \in LocalErrors :
    /\ Loading
    /\ loads[i].pc = "fetchLocal"
    /\ LoadReturns(i,
         SheetsData(loads[i].settings, loads[i].dailyLog, MealsOnFailure, getGoalHistory),
         [loads[i] EXCEPT !.mealsFetch = "failed"])

\* the fetch of the local JSON by loadFromGoogleSheets returns localData
MealsFetchReturns ==
  \E i \in 1..Len(loads), localData \in LocalMealsFiles :
    /\ Loading
    /\ loads[i].pc = "fetchLocal"
    /\ LoadReturns(i,
         SheetsData(loads[i].settings, loads[i].dailyLog, MealsOf(localData),
                    GoalHistoryOf(localData)),
         [loads[i] EXCEPT !.mealsFetch = "ok"])

\* loadLocalData: the fetch fails, the response is not ok or its body is no JSON
LocalDataFetchFails ==
  \E i \in 1..Len(loads), error \in LocalErrors :
    /\ Loading
    /\ loads[i].pc = "fetchLocalData"
    /\ LoadFails(i, error)

\* loadLocalData: the body is parsed, cached and returned
LocalDataFetchReturns ==
  \E i \in 1..Len(loads), data \in LocalDataFiles :
    /\ Loading
    /\ loads[i].pc = "fetchLocalData"
    /\ LoadReturns(i, data, [loads[i] EXCEPT !.sourceFetch = "ok"])

\* DataManager.calculateWaistChange(data)
DoCalculateWaistChange ==
  \E data \in WaistLogs(MaxWaistLog) :
    /\ Idle
    /\ op' = "calculateWaistChange"
    /\ args' = [data |-> data]
    /\ ret' = calculateWaistChange(data)
    /\ UNCHANGED appVars

\* DataManager.getStepsData(data, settings)
DoGetStepsData ==
  \E input \in StepsInputs(MaxStepsLog, MaxShortStepsLog) :
    /\ Idle
    /\ op' = "getStepsData"
    /\ args' = input
    /\ ret' = getStepsData(input.data, input.settings)
    /\ UNCHANGED appVars

\* DataManager.getYesterdayCalories(data, goals)
DoGetYesterdayCalories ==
  \E data \in CaloriesLogs(MaxCaloriesLog), goals \in CaloriesGoals :
    /\ Idle
    /\ op' = "getYesterdayCalories"
    /\ args' = [data |-> data, goals |-> goals]
    /\ ret' = getYesterdayCalories(data, goals)
    /\ UNCHANGED appVars

\* App.generateInsights(yesterdayLog, todayLog, allLogs, goals, settings, yesterdayPfc)
DoGenerateInsights ==
  \E calories \in InsightCalories, steps \in InsightSteps, yesterdayPfc \in InsightPfc,
     weight \in {Null, Num(9000)}, todayLog \in InsightTodayLogs,
     older \in InsightOlderLogs, goals \in InsightGoals :
    LET yesterdayLog == LogEntry(InsightYesterday, weight, Null, steps, calories)
        allLogs == (IF todayLog = Undef THEN <<>> ELSE <<todayLog>>) \o <<yesterdayLog>> \o older
    IN /\ Idle
       /\ op' = "generateInsights"
       /\ args' = [yesterdayLog |-> yesterdayLog, todayLog |-> todayLog, allLogs |-> allLogs,
                   goals |-> goals, settings |-> getDefaultSettings,
                   yesterdayPfc |-> yesterdayPfc]
       /\ ret' = generateInsights(yesterdayLog, todayLog, allLogs, goals, getDefaultSettings,
                                  yesterdayPfc)
       /\ UNCHANGED appVars

\* the macro block of App.generateInsights and DataManager.evaluatePFC, both
\* called with the same day totals and goals
DoCompareMacroVerdicts ==
  \E totals \in MacroTotals, goals \in MacroGoals :
    /\ Idle
    /\ op' = "compareMacroVerdicts"
    /\ args' = [totals |-> totals, goals |-> goals]
    /\ ret' = [insight |-> PfcInsight(Obj(totals), goals).verdict,
               evaluation |-> evaluatePFC(totals, Obj(goals))]
    /\ UNCHANGED appVars

\* two calls of DataManager.calculateEstimatedBurn whose settings differ at
\* most in gender
DoCompareBurnByGender ==
  \E weight \in BurnWeights, steps \in BurnSteps, settings \in BurnSettings,
     gender \in BurnGenders :
    LET other == [settings EXCEPT !.gender = gender] IN
    /\ Idle
    /\ op' = "compareBurnByGender"
    /\ args' = [weight |-> weight, steps |-> steps, settings |-> settings, other |-> other]
    /\ ret' = [first |-> calculateEstimatedBurn(weight, steps, settings),
               second |-> calculateEstimatedBurn(weight, steps, other)]
    /\ UNCHANGED appVars

\* DataManager.prepareChartData(data, settings), called for a data object and
\* for one whose daily_log holds the same entries in another order; args keeps
\* both objects as passed and as the calls left them
DoPrepareChartData ==
  \E n \in 0..MaxChartLog :
    \E log \in ChartLogs(n), order \in ChartOrders(n), meals \in ChartMeals :
      LET data == ChartData(log, meals)
          permuted == ChartData([k \in 1..n |-> log[order[k]]], meals)
      IN /\ Idle
         /\ op' = "prepareChartData"
         /\ args' = [data |-> data, permuted |-> permuted, settings |-> getDefaultSettings,
                     dataAfter |-> [data EXCEPT !.daily_log = DailyLogAfterSort(@)],
                     permutedAfter |-> [permuted EXCEPT !.daily_log = DailyLogAfterSort(@)]]
         /\ ret' = [first |-> prepareChartData(data, getDefaultSettings),
                    second |-> prepareChartData(permuted, getDefaultSettings)]
         /\ UNCHANGED appVars

\* DataManager.getMealsForDate(date), called between the steps of the loads
DoGetMealsForDate ==
  \E date \in MealsDates :
    /\ Loading
    /\ op' = "getMealsForDate"
    /\ args' = [date |-> date]
    /\ ret' = getMealsForDate(cachedData, date)
    /\ UNCHANGED appVars

NextParse == DoParseInputSheet
SpecParse == Init /\ [][NextParse]_vars

NextMovingAvg == DoCalculateMovingAverage
SpecMovingAvg == Init /\ [][NextMovingAvg]_vars

NextWeightChange == DoCalculateWeightChange
SpecWeightChange == Init /\ [][NextWeightChange]_vars

NextWeeklyStats == DoCalculateWeeklyStats
SpecWeeklyStats == Init /\ [][NextWeeklyStats]_vars

NextBurn == DoCalculateEstimatedBurn
SpecBurn == Init /\ [][NextBurn]_vars

NextPfc == DoEvaluatePFC
SpecPfc == Init /\ [][NextPfc]_vars

NextCompleteness == DoCheckDataCompleteness
SpecCompleteness == Init /\ [][NextCompleteness]_vars

NextSettings == DoParseSettingsSheet
SpecSettings == Init /\ [][NextSettings]_vars

NextCalorieTarget == DoGetCalorieTargetForDate
SpecCalorieTarget == Init /\ [][NextCalorieTarget]_vars

NextLoad ==
  \/ StartLoadData
  \/ InputFetchFails
  \/ InputFetchReturns
  \/ SettingsFetchFails
  \/ SettingsFetchReturns
  \/ MealsFetchFails
  \/ MealsFetchReturns
  \/ LocalDataFetchFails
  \/ LocalDataFetchReturns
  \/ DoGetMealsForDate
SpecLoad == Init /\ [][NextLoad]_vars

NextWaistChange == DoCalculateWaistChange
SpecWaistChange == Init /\ [][NextWaistChange]_vars

NextStepsData == DoGetStepsData
SpecStepsData == Init /\ [][NextStepsData]_vars

NextYesterdayCalories == DoGetYesterdayCalories
SpecYesterdayCalories == Init /\ [][NextYesterdayCalories]_vars

NextInsights == DoGenerateInsights
SpecInsights == Init /\ [][NextInsights]_vars

NextMacroVerdicts == DoCompareMacroVerdicts
SpecMacroVerdicts == Init /\ [][NextMacroVerdicts]_vars

NextBurnPair == DoCompareBurnByGender
SpecBurnPair == Init /\ [][NextBurnPair]_vars

NextChartData == DoPrepareChartData
SpecChartData == Init /\ [][NextChartData]_vars

Next ==
  \/ DoParseInputSheet
  \/ DoCalculateMovingAverage
  \/ DoCalculateWeeklyStats
  \/ DoCalculateWeightChange
  \/ DoCalculateEstimatedBurn
  \/ DoEvaluatePFC
  \/ DoCheckDataCompleteness
  \/ DoParseSettingsSheet
  \/ DoGetCalorieTargetForDate
  \/ StartLoadData
  \/ InputFetchFails
  \/ InputFetchReturns
  \/ SettingsFetchFails
  \/ SettingsFetchReturns
  \/ MealsFetchFails
  \/ MealsFetchReturns
  \/ LocalDataFetchFails
  \/ LocalDataFetchReturns
  \/ DoCalculateWaistChange
  \/ DoGetStepsData
  \/ DoGetYesterdayCalories
  \/ DoGenerateInsights
  \/ DoCompareMacroVerdicts
  \/ DoCompareBurnByGender
  \/ DoPrepareChartData
  \/ DoGetMealsForDate
Spec == Init /\ [][Next]_vars

(* ------------------------------------------------- claims: row parser --- *)
DataRowIndexes == 2..Len(args)
DateCellOf(i) == Cell(args[i], 0)
ParsedSheet == op = "parseInputSheet" /\ Len(args) >= 1

\* C1: for a sheet with a header row, the output of parseInputSheet has no more
\* entries than there are data rows with a non-empty date cell (a row with an
\* empty date cell produces no entry), and at most rows - 1 entries.
C1_EmptyDateRowsDropped ==
  ParsedSheet =>
    /\ Len(ret) <= Cardinality({i \in DataRowIndexes : DateCellOf(i) \notin EmptyDateCells})
    /\ Len(ret) <= Len(args) - 1

C1_Witness ==
  /\ ParsedSheet
  /\ \E i \in DataRowIndexes : DateCellOf(i) \in EmptyDateCells
  /\ Len(ret) = 1
  /\ Len(args) = 3

\* the date cells the claim counts as usable: the supported encodings, and the
\* canonical string itself
UsableDateCells ==
  SupportedDateCells(SampleDates \cup ManyDates)
    \cup {CanonicalCell(d) : d \in SampleDates}

\* C2: a data row whose date cell is non-empty but in none of the supported
\* encodings yields no entry: the output has no more entries than there are
\* data rows with a usable date cell.
C2_MalformedDateRowsDropped ==
  ParsedSheet =>
    Len(ret) <= Cardinality({i \in DataRowIndexes : DateCellOf(i) \in UsableDateCells})

\* s is the canonical YYYY-MM-DD string of the calendar date <<y, m, d>>
IsCanonicalOf(s, y, m, d) ==
  /\ Len(s) = 10
  /\ s[5] = "-" /\ s[8] = "-"
  /\ AllDigits(SubSeq(s, 1, 4)) /\ AllDigits(SubSeq(s, 6, 7)) /\ AllDigits(SubSeq(s, 9, 10))
  /\ DigitsToNat(SubSeq(s, 1, 4)) = y
  /\ DigitsToNat(SubSeq(s, 6, 7)) = m
  /\ DigitsToNat(SubSeq(s, 9, 10)) = d

AllDates == SampleDates \cup ManyDates
AllRowsKept == ParsedSheet /\ Len(ret) = Len(args) - 1

\* C3: a date cell holding Date(y,m0,d) (m0 counted from 0), YYYY/M/D or M/D is
\* emitted as the canonical YYYY-MM-DD string of that date (year 2026 for M/D),
\* and normalizing the emitted date again returns it unchanged.
C3_DateCanonicalAndIdempotent ==
  AllRowsKept =>
    \A i \in 1..Len(ret) : \A ymd \in AllDates :
      LET cell == DateCellOf(i + 1)
          out == ret[i].date
          full == cell \in {CtorCell(ymd), FullSlashCell(ymd), FullSlashPaddedCell(ymd)}
          partial == cell \in {PartialSlashCell(ymd), PartialSlashPaddedCell(ymd)}
      IN (full \/ partial) =>
           /\ out.t = "str"
           /\ IsCanonicalOf(out.v, IF full THEN ymd[1] ELSE 2026, ymd[2], ymd[3])
           /\ NormalizeDateCell(out) = out

C3_Witness ==
  /\ AllRowsKept
  /\ Len(ret) = 1
  /\ DateCellOf(2) = CtorCell(<<2025, 10, 9>>)
  /\ ret[1].date = Str(<<"2", "0", "2", "5", "-", "1", "0", "-", "0", "9">>)

\* the cells of the numeric columns that hold no number
BlankCells == {Str(<<>>), Undef, Null}
NonNumericStrings == {Str(<<"a", "b", "c">>), Str(<<" ">>)}

\* the value a numeric cell stands for
NumericCellValue(c) ==
  CASE c = Str(<<"0">>) -> 0
    [] c = Num(0) -> 0
    [] c = Str(<<"7", "2", ".", "5">>) -> 7250
    [] c = Str(<<"-", "3">>) -> 0 - 300
    [] c.t = "num" -> c.v
    [] c = Str(<<"2", "5", "0", "0">>) -> 250000

C4_FieldOk(c, field) ==
  IF c \in BlankCells \cup NonNumericStrings THEN field = Null
  ELSE field = Num(NumericCellValue(c))

\* C4: in every kept row, a blank or non-numeric cell of the columns weight,
\* waist, steps, calories gives Absent (null) and a numeric cell gives its
\* value, a cell holding 0 giving a present 0.
C4_NumberNormalization ==
  AllRowsKept =>
    \A i \in 1..Len(ret) :
      /\ C4_FieldOk(Cell(args[i + 1], 1), ret[i].weight)
      /\ C4_FieldOk(Cell(args[i + 1], 2), ret[i].waist)
      /\ C4_FieldOk(Cell(args[i + 1], 3), ret[i].steps)
      /\ C4_FieldOk(Cell(args[i + 1], 4), ret[i].calories_intake)

(* ---------------------------------------------- claims: moving average --- *)
\* the indices of the trailing window of 7 entries ending at k whose weight is
\* present and positive
C5_Window(k) == {j \in Max(1, k - 6)..k : args[j].weight.t = "num" /\ args[j].weight.v > 0}

RECURSIVE C5_Sum(_)
C5_Sum(J) ==
  IF J = {} THEN 0
  ELSE LET j == CHOOSE x \in J : TRUE IN args[j].weight.v + C5_Sum(J \ {j})

\* r hundredths is the mean of the weights at the indices J, rounded to 2 decimals
C5_IsRoundedMean(r, J) ==
  LET n == Cardinality(J)
  IN /\ 2 * n * r <= 2 * C5_Sum(J) + n
     /\ 2 * C5_Sum(J) + n < 2 * n * (r + 1)

\* C5: the moving average has one element per entry; element k is Absent exactly
\* when no entry of the window max(1,k-6)..k has a present positive weight, and
\* otherwise is the mean of exactly those weights rounded to 2 decimals.
C5_MovingAverage ==
  op = "calculateMovingAverage" =>
    /\ Len(ret) = Len(args)
    /\ \A k \in 1..Len(args) :
         /\ (ret[k] = Null) <=> (C5_Window(k) = {})
         /\ C5_Window(k) # {} => ret[k].t = "num" /\ C5_IsRoundedMean(ret[k].v, C5_Window(k))
    /\ (Len(args) \in 1..7 /\ \A j \in 1..Len(args) : PresentPositive(args[j].weight)) =>
         C5_IsRoundedMean(ret[Len(args)].v, 1..Len(args))

\* eight entries, the first one heavier: it has left the window of the last
C5_Witness ==
  /\ op = "calculateMovingAverage"
  /\ Len(args) = 8
  /\ args[1].weight = Num(7125)
  /\ \A j \in 2..8 : args[j].weight = Num(7000)
  /\ ret[8] = Num(7000)
  /\ ret[7] = Num(7018)

(* ----------------------------------------------- claims: weight change --- *)
C7_Valid == {j \in 1..Len(args.data) : args.data[j].weight.t = "num" /\ args.data[j].weight.v > 0}

\* r is x rounded to one decimal (both in hundredths)
C7_IsRoundedTenth(r, x) == r % 10 = 0 /\ r <= x + 5 /\ x + 5 < r + 10

\* C7: current is the weight of the last entry with a present positive weight,
\* change = current - start_weight and toGoal = current - target_weight, each
\* rounded to 1 decimal; with no such entry the result is the zero-struct; and
\* weights 100, 95 with start 100 and target 90 give 95, -5, 5.
C7_WeightChange ==
  op = "calculateWeightChange" =>
    /\ C7_Valid = {} => ret = ZeroWeightChange
    /\ C7_Valid # {} =>
         LET last == CHOOSE j \in C7_Valid : \A i \in C7_Valid : i <= j
             cur == args.data[last].weight.v
         IN /\ ret.current = Num(cur)
            /\ ret.change.t = "num"
            /\ C7_IsRoundedTenth(ret.change.v, cur - args.settings.start_weight.v)
            /\ ret.toGoal.t = "num"
            /\ C7_IsRoundedTenth(ret.toGoal.v, cur - args.settings.target_weight.v)
    /\ ( /\ Len(args.data) = 2
         /\ args.data[1].weight = Num(10000) /\ args.data[2].weight = Num(9500)
         /\ args.settings = [start_weight |-> Num(10000), target_weight |-> Num(9000)] ) =>
         ret.current = Num(9500) /\ ret.change = Num(0 - 500) /\ ret.toGoal = Num(500)

C7_Witness ==
  /\ op = "calculateWeightChange"
  /\ Len(args.data) = 2
  /\ args.data[1].weight = Num(10000) /\ args.data[2].weight = Num(9500)
  /\ args.settings = [start_weight |-> Num(10000), target_weight |-> Num(9000)]
  /\ ret.current = Num(9500) /\ ret.change = Num(0 - 500) /\ ret.toGoal = Num(500)

(* ------------------------------------------------ claims: weekly stats --- *)
\* the dates of the last 7 entries of the log
C6_WindowDates ==
  {args.data[k].date.v : k \in {j \in 1..Len(args.data) : j > Len(args.data) - 7}}

C6_HasMap == args.meals.t = "obj"

\* the window dates the meals map has an entry for
C6_MealDates == IF C6_HasMap THEN C6_WindowDates \cap DOMAIN args.meals.v ELSE {}

C6_NonZero(item, key) == key \in DOMAIN item /\ item[key].t = "num" /\ item[key].v # 0

\* some item of a meal slot (breakfast, lunch, snack, dinner) of a window date
\* carries non-zero protein, fat or carbs grams
C6_AnyMacroGrams ==
  \E d \in C6_MealDates :
    \E slot \in {"breakfast", "lunch", "snack", "dinner"} \cap DOMAIN args.meals.v[d] :
      \E k \in 1..Len(args.meals.v[d][slot]) :
        \E key \in {"protein", "fat", "carbs"} : C6_NonZero(args.meals.v[d][slot][k], key)

C6_PercentSum == (ret.pfc.protein.v + ret.pfc.fat.v + ret.pfc.carbs.v) \div 100

C8_Kcal(c, x) == (c * x) \div 1000000
C8_Micro(c, x) == (c * x) % 1000000

\* r kcal is round((88.362 + 13.397 w + 4.799 h - 5.677 a) * 1.2 + 0.045 s) for
\* w, h, a, s given in hundredths: the factor 1.2 is multiplied out per term
C8_IsBurn(r, w, s, h, a) ==
  LET kcal == 106 + C8_Kcal(160764, w) + C8_Kcal(57588, h) - C8_Kcal(68124, a) + C8_Kcal(450, s)
      micro == 34400 + C8_Micro(160764, w) + C8_Micro(57588, h) - C8_Micro(68124, a)
                 + C8_Micro(450, s)
  IN \* r - 1/2 <= kcal + micro / 10^6 < r + 1/2
     /\ 2 * 1000000 * (r - kcal) <= 2 * micro + 1000000
     /\ 2 * micro + 1000000 < 2 * 1000000 * (r - kcal + 1)

C8_Absent(x) == x.t \in {"null", "undefined"}
C8_StepsOf == IF args.steps.t = "num" THEN args.steps.v ELSE 0
C8_Called == op = "calculateEstimatedBurn"

\* C8 as claimed: Absent when weight is Absent, otherwise the rounded formula
\* over the weight, steps, height and age given.
C8_BurnAsClaimed ==
  C8_Called =>
    /\ C8_Absent(args.weight) => ret = Null
    /\ ( /\ args.weight.t = "num"
         /\ args.settings.height.t = "num" /\ args.settings.height.v > 0
         /\ args.settings.age.t = "num" /\ args.settings.age.v > 0 ) =>
         /\ ret.t = "num"
         /\ C8_IsBurn(ret.v \div 100, args.weight.v, C8_StepsOf,
                      args.settings.height.v, args.settings.age.v)

C8_HeightOf ==
  IF args.settings.height.t = "num" /\ args.settings.height.v # 0
  THEN args.settings.height.v ELSE 18400
C8_AgeOf ==
  IF args.settings.age.t = "num" /\ args.settings.age.v # 0
  THEN args.settings.age.v ELSE 3000

\* C8 amended: Absent when weight is Absent or 0; otherwise the rounded formula,
\* an integer, with Absent steps contributing 0 and with height 184 and age 30
\* standing in for an Absent or 0 height or age; 90 kg, 10000 steps, 184 cm, 30
\* years give 2858.
C8_Burn ==
  C8_Called =>
    /\ (C8_Absent(args.weight) \/ args.weight = Num(0)) <=> ret = Null
    /\ (args.weight.t = "num" /\ args.weight.v # 0) =>
         /\ ret.t = "num" /\ ret.v % 100 = 0
         /\ C8_IsBurn(ret.v \div 100, args.weight.v, C8_StepsOf, C8_HeightOf, C8_AgeOf)
    /\ ( /\ args.weight = Num(9000) /\ args.steps = Num(1000000)
         /\ args.settings.height = Num(18400) /\ args.settings.age = Num(3000) ) =>
         ret = Num(285800)

C8_Witness ==
  /\ C8_Called
  /\ args.weight = Num(9000) /\ args.steps = Num(1000000)
  /\ args.settings.height = Num(18400) /\ args.settings.age = Num(3000)
  /\ ret = Num(285800)

(* ---------------------------------------------- claims: PFC evaluation --- *)
C9_Called == op = "evaluatePFC"
C9_AnyMissing ==
  \/ \E key \in {"protein", "fat", "carbs"} : args.log[key].t \in {"null", "undefined"}
  \/ args.goals.t \in {"null", "undefined"}

C9_Delta(key) == args.log[key].v - args.goals.v[key].v
C9_Abs(x) == IF x < 0 THEN 0 - x ELSE x
C9_Flags ==
  (IF C9_Delta("protein") < 0 - 2000 THEN <<"proteinDeficit">> ELSE <<>>)
    \o (IF C9_Delta("fat") > 2000 THEN <<"fatExcess">> ELSE <<>>)
    \o (IF C9_Delta("carbs") > 5000 THEN <<"carbsExcess">> ELSE <<>>)

\* C9: Absent if any of the grams or the goals is missing; otherwise 'warning'
\* with the raised flags in the order protein, fat, carbs iff a flag is raised,
\* 'ideal' iff none is raised and |protein delta| <= 20 and |fat delta| <= 15,
\* and Absent in the remaining middle ground.
C9_MacroEvaluation ==
  C9_Called =>
    IF C9_AnyMissing THEN ret = Null
    ELSE IF C9_Flags # <<>> THEN ret = Obj([status |-> "warning", text |-> C9_Flags])
    ELSE IF C9_Abs(C9_Delta("protein")) <= 2000 /\ C9_Abs(C9_Delta("fat")) <= 1500
    THEN ret = Obj([status |-> "good", text |-> <<"ideal">>])
    ELSE ret = Null

(* ------------------------------------------- claims: data completeness --- *)
C10_Called == op = "checkDataCompleteness"

\* the canonical string of the day i days before today, from the written-out run
C10_DateStr(i) == CanonicalCell(args.run[i + 1])
C10_HasEntry(i) == \E k \in 1..Len(args.logs) : args.logs[k].date = C10_DateStr(i)
C10_NoDataFor(i) ==
  \E k \in 1..Len(ret) : ret[k].type = "no_data" /\ ret[k].dateStr = C10_DateStr(i)

\* C10: no no_data warning is ever produced for today, with or without a log
\* entry for it; one is produced for each of the two preceding calendar days
\* that has no log entry (and only for those).
C10_NoDataWarnings ==
  C10_Called =>
    /\ ~C10_NoDataFor(0)
    /\ \A i \in {1, 2} : C10_NoDataFor(i) <=> ~C10_HasEntry(i)
    /\ \A k \in 1..Len(ret) :
         ret[k].type = "no_data" => ret[k].dateStr \in {C10_DateStr(1), C10_DateStr(2)}

\* today (1 March 2024) and the day before (29 February) have no entry: only
\* the day before is flagged
C10_Witness ==
  /\ C10_Called
  /\ args.run[1] = <<2024, 3, 1>>
  /\ ~C10_HasEntry(0) /\ ~C10_HasEntry(1) /\ C10_HasEntry(2)
  /\ Len(ret) = 1
  /\ ret[1].type = "no_data"
  /\ ret[1].dateStr = Str(<<"2", "0", "2", "4", "-", "0", "2", "-", "2", "9">>)

\* the log entry of the day i days before today (HasEntry holds)
C11_Entry(i) == args.logs[CHOOSE k \in 1..Len(args.logs) : args.logs[k].date = C10_DateStr(i)]
C11_Absent(x) == x.t \in {"null", "undefined"}
C11_FieldFlagged(i, field) ==
  \E k \in 1..Len(ret) :
    /\ ret[k].type = "missing_fields"
    /\ ret[k].dateStr = C10_DateStr(i)
    /\ \E j \in 1..Len(ret[k].fields) : ret[k].fields[j] = field
C11_MealsFlagged(i) ==
  \E k \in 1..Len(ret) : ret[k].type = "missing_meals" /\ ret[k].dateStr = C10_DateStr(i)
\* no meal detail is registered for the day
C11_NoMealDetail(i) ==
  args.meals.t = "null" \/ C10_DateStr(i).v \notin DOMAIN args.meals.v
C11_HasCalories(i) ==
  C11_Entry(i).calories_intake.t = "num" /\ C11_Entry(i).calories_intake.v # 0

\* what holds of the field flags whatever is meant by flagging meal detail
C11_FieldFlags(i) ==
  /\ C11_Absent(C11_Entry(i).weight) => C11_FieldFlagged(i, "weight")
  /\ C11_Absent(C11_Entry(i).waist) => C11_FieldFlagged(i, "waist")
  /\ i = 0 => /\ ~C11_FieldFlagged(i, "calories")
              /\ ~C11_FieldFlagged(i, "steps")
              /\ ~C11_MealsFlagged(i)
  /\ i > 0 => /\ C11_Absent(C11_Entry(i).calories_intake) => C11_FieldFlagged(i, "calories")
              /\ C11_Absent(C11_Entry(i).steps) <=> C11_FieldFlagged(i, "steps")
              /\ C11_Entry(i).steps = Num(0) => ~C11_FieldFlagged(i, "steps")

\* C11 as stated: on each of the three days that has a log entry a missing
\* weight and a missing waist are flagged; missing calories, missing steps and
\* missing meal detail are flagged on the two days before today and never on
\* today; a present step count of 0 is not flagged.
C11_FlagsAsClaimed ==
  C10_Called =>
    \A i \in 0..2 : C10_HasEntry(i) =>
      /\ C11_FieldFlags(i)
      /\ i > 0 => (C11_NoMealDetail(i) => C11_MealsFlagged(i))

\* C11, amended: as above, but missing meal detail is flagged on the two days
\* before today exactly when the day's entry has a present non-zero calorie
\* intake.
C11_Flags ==
  C10_Called =>
    \A i \in 0..2 : C10_HasEntry(i) =>
      /\ C11_FieldFlags(i)
      /\ i > 0 => (C11_MealsFlagged(i) <=> (C11_NoMealDetail(i) /\ C11_HasCalories(i)))

\* today's entry is empty and only its weight and waist are flagged; the day
\* before has 0 steps, calories and no meal detail: only the meals are flagged;
\* two days before has no calories and no meal detail: calories are flagged,
\* the meals are not
C11_Witness ==
  /\ C10_Called
  /\ \A i \in 0..2 : C10_HasEntry(i)
  /\ C11_Entry(0) = LogEntry(C10_DateStr(0), Null, Null, Null, Null)
  /\ C11_FieldFlagged(0, "weight") /\ C11_FieldFlagged(0, "waist")
  /\ ~C11_FieldFlagged(0, "calories") /\ ~C11_FieldFlagged(0, "steps")
  /\ C11_Entry(1).steps = Num(0) /\ C11_HasCalories(1) /\ C11_NoMealDetail(1)
  /\ C11_MealsFlagged(1) /\ ~C11_FieldFlagged(1, "steps")
  /\ C11_Absent(C11_Entry(2).calories_intake) /\ C11_NoMealDetail(2)
  /\ C11_FieldFlagged(2, "calories") /\ ~C11_MealsFlagged(2)

(* ---------------------------------------------------- claims: settings --- *)
C12_Called == op = "parseSettingsSheet"

\* the data rows that are a (key, value) pair with a non-empty key
C12_PairRows ==
  {i \in 2..Len(args) : Len(args[i]) = 2 /\ args[i][1].t = "key"}
C12_NamedKeys == {args[i][1].v : i \in C12_PairRows}
\* the value of the last row that names the key
C12_ValueOf(key) ==
  LET last == CHOOSE i \in C12_PairRows :
                /\ args[i][1].v = key
                /\ \A j \in C12_PairRows : args[j][1].v = key => j <= i
  IN args[last][2]
\* what a value is stored as: its number when it is a number or spells one,
\* the string itself otherwise
C12_StoredAs(value) ==
  CASE value = Str(<<"1", "7", "5">>) -> Num(17500)
    [] value = Str(<<"1", "2", ".", "5">>) -> Num(1250)
    [] OTHER -> value

\* C12: fewer than 2 rows give the defaults; otherwise every key named by a row
\* maps to the number its value spells, or to the value's string when it spells
\* none, and every default key no row names keeps its default value.
C12_SettingsMerge ==
  C12_Called =>
    IF Len(args) < 2 THEN ret = getDefaultSettings
    ELSE /\ DOMAIN ret = DOMAIN getDefaultSettings \cup C12_NamedKeys
         /\ \A k \in C12_NamedKeys : ret[k] = C12_StoredAs(C12_ValueOf(k))
         /\ \A k \in DOMAIN getDefaultSettings \ C12_NamedKeys : ret[k] = getDefaultSettings[k]

(* ---------------------------------------------- claims: calorie target --- *)
C13_Called == op = "getCalorieTargetForDate"
\* the call is for a calendar day
C13_Day == CHOOSE d \in TargetDays : CanonicalCell(d) = args.dateStr
C13_IsDay == \E d \in TargetDays : CanonicalCell(d) = args.dateStr
C13_Before ==
  \/ C13_Day[1] < 2026
  \/ C13_Day[1] = 2026 /\ C13_Day[2] = 1 /\ C13_Day[3] < 20
\* settings.goals.calories, Absent when settings has no such goal
C13_Goal(key) ==
  IF "goals" \in DOMAIN args.settings /\ args.settings.goals.t = "obj"
     /\ key \in DOMAIN args.settings.goals.v
  THEN args.settings.goals.v[key]
  ELSE Undef
C13_Unset(x) == x.t = "undefined" \/ x = Num(0)

\* C13 as stated: the result is goals.calories_before_0120 for a day before
\* 2026-01-20 and goals.calories for that day and every later one.
C13_TargetAsClaimed ==
  (C13_Called /\ C13_IsDay) =>
    ret = (IF C13_Before THEN C13_Goal("calories_before_0120") ELSE C13_Goal("calories"))

\* C13, amended: the same, with 2600 (before) and 2700 (from 2026-01-20 on)
\* returned when that goal is Absent or 0.
C13_Target ==
  (C13_Called /\ C13_IsDay) =>
    ret = (IF C13_Before
           THEN (IF C13_Unset(C13_Goal("calories_before_0120")) THEN Num(260000)
                 ELSE C13_Goal("calories_before_0120"))
           ELSE (IF C13_Unset(C13_Goal("calories")) THEN Num(270000)
                 ELSE C13_Goal("calories")))

\* on the change date itself the new goal, here 2500, is returned
C13_Witness ==
  /\ C13_Called
  /\ args.dateStr = CanonicalCell(<<2026, 1, 20>>)
  /\ C13_Goal("calories") = Num(250000)
  /\ C13_Goal("calories_before_0120") = Num(240000)
  /\ ret = Num(250000)

(* ------------------------------------------------------- claims: loads --- *)
\* the step in which load i gets the answer to its fetch of the local JSON
\* after its settings fetch failed
C14_Completes(i) ==
  /\ loads[i].pc = "fetchLocal"
  /\ loads[i].settingsFetch = "failed"
  /\ loads'[i].pc # "fetchLocal"
\* the step in which the settings fetch of load i fails
C14_SettingsFail(i) ==
  loads[i].pc = "fetchSettings" /\ loads'[i].settingsFetch = "failed"

\* C14: a load whose Input fetch succeeded and whose settings fetch failed does
\* not fail (no error is shown for it, it goes on to fetch the local JSON) and
\* completes with settings equal to the defaults and daily_log parsed from the
\* Input sheet, and that data is stored in the cache.
C14_SettingsFallback ==
  [][\A i \in 1..Len(loads) :
       /\ C14_SettingsFail(i) =>
            /\ loads[i].sourceFetch = "ok"
            /\ loads'[i].pc = "fetchLocal"
            /\ errorMessage' = errorMessage
       /\ C14_Completes(i) =>
            /\ loads'[i].pc = "done"
            /\ loads'[i].data.settings = getDefaultSettings
            /\ loads'[i].data.daily_log = parseInputSheet(loads[i].dailyLog)
            /\ Len(loads'[i].data.daily_log) = Len(loads[i].dailyLog) - 1
            /\ cachedData' = loads'[i].data]_vars

\* a load completed after its settings fetch had failed, and its data, with
\* the default settings and a one-entry log, is the cached data
C14_Witness ==
  \E i \in 1..Len(loads) :
    /\ loads[i].pc = "done"
    /\ loads[i].source = "sheets"
    /\ loads[i].settingsFetch = "failed"
    /\ cachedData = loads[i].data
    /\ cachedData.settings = getDefaultSettings
    /\ Len(cachedData.daily_log) = 1

\* the step in which the fetch of the mandatory source of load i fails
C15_SourceFails(i) == loads[i].sourceFetch = "none" /\ loads'[i].sourceFetch = "failed"

\* C15: when the fetch or parse of the mandatory source of a load attempt
\* fails, the attempt ends as a failure and takes no further step, the
\* mandatory fetch was issued exactly once, nothing was rendered for the
\* attempt, an error banner with a message is shown, and currentData, chartData
\* and cachedData are left as they were.
C15_FatalLoadFailure ==
  /\ [](\A i \in 1..Len(loads) :
          loads[i].sourceFetch = "failed" =>
            /\ loads[i].pc = "failed"
            /\ loads[i].inputFetches = 1
            /\ ~loads[i].rendered)
  /\ [][\A i \in 1..Len(loads) :
          /\ C15_SourceFails(i) =>
               /\ errorMessage'.t = "str" /\ errorMessage'.v # ""
               /\ UNCHANGED <<currentData, chartData, cachedData>>
          /\ loads[i].pc = "failed" => loads'[i] = loads[i]]_vars

\* a first load has succeeded and a second one has failed: the banner is
\* shown over the data of the first
C15_Witness ==
  /\ Len(loads) = 2
  /\ loads[1].pc = "done"
  /\ loads[2].pc = "failed" /\ loads[2].sourceFetch = "failed"
  /\ errorMessage.t = "str"
  /\ currentData = loads[1].data
  /\ cachedData = loads[1].data
  /\ chartData = PreparedFrom(loads[1].data)

(* ------------------------------------------------------- claims: steps --- *)
C16_Called == op = "getStepsData"
C16_Present(j) == args.data[j].steps.t = "num"
C16_PresentIndexes == {j \in 1..Len(args.data) : C16_Present(j)}
C16_Window == {j \in Max(1, Len(args.data) - 6)..Len(args.data) : C16_Present(j)}
RECURSIVE C16_Sum(_)
C16_Sum(J) ==
  IF J = {} THEN 0
  ELSE LET j == CHOOSE x \in J : TRUE IN args.data[j].steps.v + C16_Sum(J \ {j})
\* r is the mean of the window rounded to a whole number of steps, a half going up
C16_IsRoundedMean(r) ==
  LET n == Cardinality(C16_Window)
      sum == C16_Sum(C16_Window)
  IN /\ r.t = "num" /\ r.v % 100 = 0
     /\ 2 * (n * r.v - sum) <= 100 * n
     /\ 2 * (sum - n * r.v) < 100 * n
C16_TargetSet ==
  /\ "target_steps" \in DOMAIN args.settings
  /\ args.settings.target_steps.t = "num"
  /\ args.settings.target_steps.v # 0

\* C16: current is the step count of the last entry whose steps are present, 0
\* counting as present (Absent when there is none); avgSteps is the rounded mean
\* of the present step counts of the last 7 entries, zeros included, and Absent
\* when there is none; target is settings.target_steps, and 10000 when that is
\* not set.
C16_StepsSummary ==
  C16_Called =>
    /\ IF C16_PresentIndexes = {} THEN ret.current = Null
       ELSE \E j \in C16_PresentIndexes :
              /\ \A k \in C16_PresentIndexes : k <= j
              /\ ret.current = args.data[j].steps
    /\ IF C16_Window = {} THEN ret.avgSteps = Null ELSE C16_IsRoundedMean(ret.avgSteps)
    /\ ret.target = (IF C16_TargetSet THEN args.settings.target_steps ELSE Num(1000000))

\* eight entries: steps are present in the first, which the window leaves
\* out, and the last has 0 steps: current is 0 and the mean counts the zero
C16_Witness ==
  /\ C16_Called
  /\ Len(args.data) = 8
  /\ args.data[1].steps = Num(800100)
  /\ args.data[7].steps = Num(800100)
  /\ args.data[8].steps = Num(0)
  /\ C16_Window = {7, 8}
  /\ ret.current = Num(0)
  /\ ret.avgSteps = Num(400100)
  /\ ret.target = Num(1000000)

(* ------------------------------------------- claims: yesterday calories --- *)
C17_Called == op = "getYesterdayCalories"
\* the entries whose calorie intake is present
C17_Bearing ==
  {j \in 1..Len(args.data) : args.data[j].calories_intake.t \notin {"null", "undefined"}}

\* C17: the result is taken from the last entry whose calorie intake is
\* present: its calories, its date, and diff = calories - goals.calories; with
\* no such entry calories and diff are Absent.
C17_LatestCalories ==
  C17_Called =>
    IF C17_Bearing = {} THEN ret.calories = Null /\ ret.diff = Null
    ELSE \E j \in C17_Bearing :
           /\ \A k \in C17_Bearing : k <= j
           /\ ret.calories = args.data[j].calories_intake
           /\ ret.date = args.data[j].date
           /\ "calories" \in DOMAIN args.goals =>
                ret.diff = Num(args.data[j].calories_intake.v - args.goals.calories.v)

(* ------------------------------------------------------- claims: waist --- *)
C18_Called == op = "calculateWaistChange"
C18_Valid == {j \in 1..Len(args.data) : args.data[j].waist.t = "num" /\ args.data[j].waist.v > 0}

\* C18: current is the waist of the last entry with a present positive waist
\* and change is current minus the waist of the first such entry, rounded to 1
\* decimal; with no such entry both are Absent; with exactly one, change is 0.
C18_WaistChange ==
  C18_Called =>
    IF C18_Valid = {} THEN ret = [current |-> Null, change |-> Null]
    ELSE \E first \in C18_Valid, last \in C18_Valid :
           /\ \A k \in C18_Valid : first <= k /\ k <= last
           /\ ret.current = args.data[last].waist
           /\ ret.change.t = "num"
           /\ C7_IsRoundedTenth(ret.change.v, args.data[last].waist.v - args.data[first].waist.v)
           /\ Cardinality(C18_Valid) = 1 => ret.change = Num(0)

\* waists 100, a zero, 95.45: current is 95.45 and the change of -4.55 is
\* rounded to -4.5
C18_Witness ==
  /\ C18_Called
  /\ Len(args.data) = 3
  /\ args.data[1].waist = Num(10000)
  /\ args.data[2].waist = Num(0)
  /\ args.data[3].waist = Num(9545)
  /\ ret.current = Num(9545)
  /\ ret.change = Num(0 - 450)

(* ---------------------------------------------------- claims: insights --- *)
C19_Called == op = "generateInsights"
C19_Kinds == {"celebratory", "mixed", "needs-improvement", "no-data"}
C19_HasPositives == ret.positives # <<>>
C19_HasImprovements == ret.improvements # <<>>

\* C19: the summary is one of celebratory, mixed, needs-improvement, no-data:
\* celebratory iff there are positives and no improvements, mixed iff there are
\* both, needs-improvement iff there are only improvements, no-data iff there
\* are neither.
C19_SummaryClassification ==
  C19_Called =>
    /\ ret.summary.kind \in C19_Kinds
    /\ ret.summary.kind = "celebratory" <=> (C19_HasPositives /\ ~C19_HasImprovements)
    /\ ret.summary.kind = "mixed" <=> (C19_HasPositives /\ C19_HasImprovements)
    /\ ret.summary.kind = "needs-improvement" <=> (~C19_HasPositives /\ C19_HasImprovements)
    /\ ret.summary.kind = "no-data" <=> (~C19_HasPositives /\ ~C19_HasImprovements)

\* the steps goal was achieved and the calories were 250 over the goal: one
\* positive, one improvement, and the summary is mixed
C19_Witness ==
  /\ C19_Called
  /\ args.yesterdayLog.steps = Num(1000000)
  /\ args.yesterdayLog.calories_intake = Num(295000)
  /\ ret.calories = Verdict("negative")
  /\ ret.steps = Verdict("positive")
  /\ Len(ret.positives) >= 1 /\ Len(ret.improvements) >= 1
  /\ ret.summary.kind = "mixed"

(* ----------------------------------------------- claims: date uniqueness --- *)
\* C20: in the sequence parseInputSheet produces no two entries have the same
\* date.
C20_DateIsUniqueKey ==
  op = "parseInputSheet" =>
    \A i \in 1..Len(ret), j \in 1..Len(ret) : i # j => ret[i].date # ret[j].date

(* ------------------------------------------ claims: insight sub-verdicts --- *)
C21_Intake == args.yesterdayLog.calories_intake
C21_GoalSet == "calories" \in DOMAIN args.goals
C21_Diff == C21_Intake.v - args.goals.calories.v
\* how many suggestions of the calorie block are in the lists
C21_Improvements ==
  Cardinality({k \in 1..Len(ret.improvements) :
                 ret.improvements[k] \in {"caloriesOver", "caloriesShort"}})
C21_Positives ==
  Cardinality({k \in 1..Len(ret.positives) : ret.positives[k] = "caloriesOk"})
C21_Gives(status, improvements, positives) ==
  /\ ret.calories = Verdict(status)
  /\ C21_Improvements = improvements
  /\ C21_Positives = positives

\* C21: with a present calorie intake and diff = intake - goals.calories, the
\* calorie verdict is negative with an improvement for diff > 200, warning with
\* nothing added for 0 < diff <= 200, positive with a positive for
\* -200 <= diff <= 0, warning with an improvement for diff < -200; with an
\* Absent intake there is no calorie verdict.
C21_CalorieVerdict ==
  (C19_Called /\ C21_GoalSet) =>
    IF C21_Intake.t \in {"null", "undefined"}
    THEN ret.calories = Null /\ C21_Improvements = 0 /\ C21_Positives = 0
    ELSE IF C21_Diff > 20000 THEN C21_Gives("negative", 1, 0)
    ELSE IF C21_Diff > 0 THEN C21_Gives("warning", 0, 0)
    ELSE IF C21_Diff >= 0 - 20000 THEN C21_Gives("positive", 0, 1)
    ELSE C21_Gives("warning", 1, 0)

C22_Steps == args.yesterdayLog.steps
C22_Target == args.settings.target_steps.v
C22_Improvements ==
  Cardinality({k \in 1..Len(ret.improvements) :
                 ret.improvements[k] \in {"walkMore", "walkMuchMore"}})
C22_Positives ==
  Cardinality({k \in 1..Len(ret.positives) : ret.positives[k] = "stepsAchieved"})

\* C22: with steps present (0 included) the steps verdict is positive iff
\* steps >= target_steps, warning iff steps is at least 70% of target_steps
\* but below it, negative iff steps is below 70% of target_steps; the achieved
\* band adds one positive, each of the other two one improvement.
C22_StepsVerdict ==
  (C19_Called /\ C22_Steps.t = "num") =>
    /\ ret.steps # Null
    /\ ret.steps.status = "positive" <=> C22_Steps.v >= C22_Target
    /\ ret.steps.status = "warning" <=>
         (100 * C22_Steps.v >= 70 * C22_Target /\ C22_Steps.v < C22_Target)
    /\ ret.steps.status = "negative" <=> 100 * C22_Steps.v < 70 * C22_Target
    /\ C22_Positives = (IF ret.steps.status = "positive" THEN 1 ELSE 0)
    /\ C22_Improvements = (IF ret.steps.status = "positive" THEN 0 ELSE 1)

C28_AnyVerdict ==
  \/ ret.calories # Null
  \/ ret.steps # Null
  \/ ret.pfc # Null
  \/ ret.weight # Null
  \/ ret.waist # Null

\* C28: the summary is no-data only when none of the five sub-verdicts was
\* produced; with at least one sub-verdict the summary is celebratory, mixed
\* or needs-improvement.
C28_NoDataOnlyWithoutVerdicts ==
  C19_Called =>
    /\ ret.summary.kind = "no-data" => ~C28_AnyVerdict
    /\ C28_AnyVerdict => ret.summary.kind \in {"celebratory", "mixed", "needs-improvement"}

(* ----------------------------------------- claims: macro verdict agreement --- *)
C29_Called == op = "compareMacroVerdicts"
C29_InsightWarns == ret.insight # Null /\ ret.insight.status = "warning"
C29_EvaluationWarns == ret.evaluation # Null /\ ret.evaluation.v.status = "warning"

\* C29: for the same non-zero day totals and the same set goals, the macro
\* verdict of generateInsights is 'warning' exactly when evaluatePFC returns
\* 'warning', and then both carry the same flag labels in the same order.
C29_MacroVerdictAgreement ==
  C29_Called =>
    /\ C29_InsightWarns <=> C29_EvaluationWarns
    /\ C29_InsightWarns => ret.insight.issues = ret.evaluation.v.text

\* 150 / 79 / 376 g against 195 / 58 / 325: both warn with the three flags
C29_Witness ==
  /\ C29_Called
  /\ args.totals = Item(15000, 7900, 37600)
  /\ args.goals = DefaultGoals.v
  /\ C29_InsightWarns /\ C29_EvaluationWarns
  /\ ret.insight.issues = <<"proteinDeficit", "fatExcess", "carbsExcess">>
  /\ ret.evaluation.v.text = <<"proteinDeficit", "fatExcess", "carbsExcess">>

(* ------------------------------------------------- claims: PFC totals --- *)
\* every item of every slot, exercise included, of the window dates that have
\* meals: <<date, slot, index>>
C23_Items ==
  {<<d, slot, k>> \in
     UNION {{d} \X (DOMAIN args.meals.v[d]) \X (1..3) : d \in C6_MealDates} :
       k <= Len(args.meals.v[d][slot])}
C23_GramsOf(i, key) ==
  LET item == args.meals.v[i[1]][i[2]][i[3]]
  IN IF key \in DOMAIN item /\ item[key].t = "num" THEN item[key].v ELSE 0
RECURSIVE C23_Total(_, _)
C23_Total(I, key) ==
  IF I = {} THEN 0
  ELSE LET i == CHOOSE x \in I : TRUE IN C23_GramsOf(i, key) + C23_Total(I \ {i}, key)
C23_Cal(key) == (IF key = "fat" THEN 9 ELSE 4) * C23_Total(C23_Items, key)
C23_TotalCal == C23_Cal("protein") + C23_Cal("fat") + C23_Cal("carbs")
\* r is the whole percentage that part is of total, a half going up
C23_IsPercent(r, part, total) ==
  /\ r.t = "num" /\ r.v % 100 = 0
  /\ 2 * ((r.v \div 100) * total - 100 * part) <= total
  /\ 2 * (100 * part - (r.v \div 100) * total) < total

\* C23: the percentages are those of the protein, fat and carbs grams summed
\* over the items of every slot (breakfast, lunch, snack, dinner and exercise)
\* of every window date that has meals.
C23_AllSlotsSummed ==
  (op = "calculateWeeklyStats" /\ C23_TotalCal > 0) =>
    \A key \in {"protein", "fat", "carbs"} :
      C23_IsPercent(ret.pfc[key], C23_Cal(key), C23_TotalCal)

(* ------------------------------------------- claims: gender invariance --- *)
C24_Called == op = "compareBurnByGender"
C24_OnlyGenderDiffers ==
  /\ DOMAIN args.settings = DOMAIN args.other
  /\ \A k \in DOMAIN args.settings \ {"gender"} : args.settings[k] = args.other[k]

C25_Called == op = "prepareChartData"
C25_Log == args.permuted.daily_log
C25_Day(e) == ParseIsoDate(e.date.v)
C25_DistinctValidDates ==
  /\ \A k \in DOMAIN C25_Log : C25_Day(C25_Log[k]).t = "date"
  /\ \A j, k \in DOMAIN C25_Log : j # k => C25_Day(C25_Log[j]).v # C25_Day(C25_Log[k]).v
\* the number of entries dated before entry k
C25_Earlier(k) ==
  Cardinality({j \in DOMAIN C25_Log :
                 DayOrder(C25_Day(C25_Log[j]).v) < DayOrder(C25_Day(C25_Log[k]).v)})
C25_Metrics(r) ==
  <<r.weight.movingAvg, r.stats, r.weightChange, r.waistChange, r.stepsData,
    r.yesterdayCalories>>

\* C25: for entries with distinct valid dates the chart series are in ascending
\* date order, the derived metrics (moving average, weekly stats, weight and
\* waist change, steps summary, yesterday calories) are the same for the log
\* in either order, and the daily_log order and the meals map of the data
\* passed in are as they were before the call.
C25_SortedCopy ==
  (C25_Called /\ C25_DistinctValidDates) =>
    /\ C25_Metrics(ret.first) = C25_Metrics(ret.second)
    /\ \A k \in DOMAIN C25_Log :
         ret.second.weight.data[C25_Earlier(k) + 1] =
           (IF Falsy(C25_Log[k].weight) THEN Null ELSE C25_Log[k].weight)
    /\ args.dataAfter = args.data
    /\ args.permutedAfter = args.permuted

C25_Witness ==
  /\ C25_Called /\ C25_DistinctValidDates
  /\ Len(C25_Log) = 8
  /\ C25_Log[1].date = LogDate(8) /\ args.data.daily_log[1].date = LogDate(1)
  /\ args.data.meals.t = "obj"
  /\ ret.second.weightChange = ret.first.weightChange
  /\ ret.second.stats.avgWeight.v > 0
  /\ args.permutedAfter.daily_log[1].date = LogDate(8)

(* ------------------------------------------ claims: last-loaded cache --- *)
\* the loads that have succeeded, and the one of them that ended last
C26_Succeeded == {k \in 1..Len(loads) : loads[k].pc = "done"}
C26_MostRecent ==
  CHOOSE k \in C26_Succeeded : \A j \in C26_Succeeded : loads[j].finished <= loads[k].finished
C26_Expected(date) ==
  IF C26_Succeeded = {} THEN Null
  ELSE LET data == loads[C26_MostRecent].data
       IN IF "meals" \notin DOMAIN data THEN Null
          ELSE IF date \notin DOMAIN data.meals.v THEN Null
          ELSE data.meals.v[date]
C26_LoadFailed == \E k \in 1..Len(loads) : loads[k].pc # "failed" /\ loads'[k].pc = "failed"

\* C26: a call of getMealsForDate returns the DayMeals that the data of the
\* most recent successful load holds for the date, Absent when no load has
\* succeeded, that data has no meals map or the map has no such date; the call
\* leaves the cache as it was, and so does a load that fails.
C26_LastLoadedCache ==
  [][/\ op' = "getMealsForDate" =>
          (ret' = C26_Expected(args'.date) /\ cachedData' = cachedData)
     /\ C26_LoadFailed => cachedData' = cachedData]_vars

C26_Witness ==
  /\ op = "getMealsForDate"
  /\ Len(loads) = 2
  /\ loads[1].pc = "done" /\ loads[1].source = "local"
  /\ loads[2].pc = "failed"
  /\ args.date = FormatYMD(<<2026, 1, 7>>)
  /\ ret = SomeDayMeals

(* --------------------------------------------- claims: overlapping loads --- *)
C27_AllSucceeded == \A k \in 1..Len(loads) : loads[k].pc = "done"
C27_Overlapped == Len(loads) >= 2 /\ loads[Len(loads)].inFlightAtStart # {}

\* C27: when a load was started while an earlier one was still in flight and
\* every load has finished with data, currentData and cachedData are the data
\* of the load that was started last.
C27_LastStartedWins ==
  (C27_Overlapped /\ C27_AllSucceeded) =>
    /\ currentData = loads[Len(loads)].data
    /\ cachedData = loads[Len(loads)].data

(* ------------------------------------------- claims: meals fetch failure --- *)
\* the step in which the fetch of the local JSON of load i fails
C30_MealsFail(i) == loads[i].pc = "fetchLocal" /\ loads'[i].mealsFetch = "failed"

\* C30: when the fetch of the local meals JSON of a sheets load fails, the
\* Input fetch of that load had succeeded, no error is shown and the load
\* completes: its data has the empty meals map, the built-in goal history and
\* the daily log parsed from the Input sheet, and is stored in the cache.
C30_MealsFallback ==
  [][\A i \in 1..Len(loads) :
       C30_MealsFail(i) =>
         /\ loads[i].sourceFetch = "ok"
         /\ loads'[i].pc = "done"
         /\ errorMessage' = Null
         /\ loads'[i].data.meals = [t |-> "obj", v |-> <<>>]
         /\ DOMAIN loads'[i].data.meals.v = {}
         /\ loads'[i].data.goal_history = getGoalHistory
         /\ loads'[i].data.daily_log = parseInputSheet(loads[i].dailyLog)
         /\ cachedData' = loads'[i].data]_vars

\* a sheets load has completed after its local JSON fetch failed; the cache
\* holds its two-entry log, no meals and the built-in goal history
C30_Witness ==
  \E i \in 1..Len(loads) :
    /\ loads[i].pc = "done"
    /\ loads[i].source = "sheets"
    /\ loads[i].mealsFetch = "failed"
    /\ cachedData = loads[i].data
    /\ Len(cachedData.daily_log) = 2
    /\ DOMAIN cachedData.meals.v = {}
    /\ cachedData.goal_history = getGoalHistory
    /\ errorMessage = Null

====
